---- MODULE Spec2Model ----
(***************************************************************************)
(* Model of the local index of noetic-sys/index: the SQLite metadata store *)
(* (packages, versions, chunks), the LanceDB vector store, the blob store  *)
(* and the commands that write them: index_package, skip, retry, remove    *)
(* and prune.  Every store call the code awaits is one step, so that two   *)
(* tasks or two invocations interleave between any two statements.         *)
(*                                                                         *)
(* Strings are sequences of one-character strings, so that format!() is    *)
(* concatenation.  SQLite enforces the declared UNIQUE and FOREIGN KEY     *)
(* constraints (sqlx turns foreign_keys on for every connection).          *)
(* Uuid::new_v4() is a fresh identifier: the least one of a finite pool     *)
(* that no row, no vector entry and no task holds.                         *)
(***************************************************************************)
EXTENDS Integers, Sequences, FiniteSets, TLC

\* ---------------------------------------------------------------- bounds
\* files of one download, hence chunks of one index_package call
MaxChunks == 2

\* the tasks or invocations that run commands side by side
Procs == {"t1", "t2"}
\* the registry:name@version specs the commands are given
Registries == {<<"n", "p", "m">>}
Names == {<<"a">>}
VersionStrs == {<<"1">>}
\* sha256 of a chunk's code
Hashes == {<<"h">>}
\* the identifiers Uuid::new_v4() draws from
ChunkIds == {1, 2}
VersionIds == {1}
PackageIds == {1}

\* SQL NULL in error_message; the empty string argument; no identifier
NULL == "NULL"
Empty == <<>>
NoId == 0
\* a file that parse_files drops or that yields no chunk
NoChunk == <<>>

\* ------------------------------------------------------------- variables
VARIABLES
    packages,   \* rows of table packages: [id, registry, name]
    versions,   \* rows of table versions
    chunks,     \* rows of table chunks: [id, version_id, namespace, storage_key]
    tables,     \* vector store: the namespaces that have a table
    vectors,    \* vector store: entries [namespace, chunk_id]
    blobs,      \* blob store: the storage keys that hold a file
    pc,         \* position of each task
    loc,        \* local variables of each task
    result,     \* what the last command of each task returned
    search,     \* the search in flight, or what the last search returned
    work,       \* the work list of an init, update or watch-sync and its tasks
    call        \* a call of a function of the manifests, the workspace
                \* analysis or the vector store: its arguments, its return

vars == <<packages, versions, chunks, tables, vectors, blobs, pc, loc, result,
          search, work, call>>
db == <<packages, versions, chunks>>
stores == <<tables, vectors, blobs>>

\* --------------------------------------------------------------- helpers
Min(a, b) == IF a < b THEN a ELSE b

Least(S) == CHOOSE i \in S : \A j \in S : i <= j

SeqsUpTo(S, n) == UNION {[1..k -> S] : k \in 0..n}

Range(s) == {s[k] : k \in 1..Len(s)}

\* format!("{}/{}/{}", registry, name, version)
namespace_of(registry, name, version) ==
    registry \o <<"/">> \o name \o <<"/">> \o version

\* format!("{}/{}/{}/{}", registry, name, version, hash)
storage_key_of(registry, name, version, hash) ==
    registry \o <<"/">> \o name \o <<"/">> \o version \o <<"/">> \o hash

\* blobs_dir.join(registry).join(name).join(version), as a key prefix
IsPrefix(p, s) == Len(p) <= Len(s) /\ SubSeq(s, 1, Len(p)) = p

UnderVersionDir(key, registry, name, version) ==
    IsPrefix(namespace_of(registry, name, version) \o <<"/">>, key)

\* ----------------------------------------------------- fresh identifiers
HeldChunkIds ==
    UNION {{c.id : c \in Range(loc[p].db_chunks)} : p \in Procs}

FreeChunkIds ==
    ChunkIds \ ({c.id : c \in chunks} \cup {e.chunk_id : e \in vectors}
                \cup HeldChunkIds)

FreeVersionIds ==
    VersionIds \ ({v.id : v \in versions}
                  \cup {loc[p].version_id : p \in Procs}
                  \cup UNION {{t.version_id : t \in loc[p].to_prune} : p \in Procs})

FreePackageIds ==
    PackageIds \ ({k.id : k \in packages} \cup {loc[p].package_id : p \in Procs})

\* ------------------------------------------------------- database (db.rs)
find_package(registry, name) ==
    {k \in packages : k.registry = registry /\ k.name = name}

\* a SELECT that matches no row, with no UNIQUE(package_id, version)
find_version_by_package_misses(package_id, version) == {}

find_version_by_package(package_id, version) ==
    {v \in versions : v.package_id = package_id /\ v.version = version}

\* SELECT ... FROM versions v JOIN packages p ON v.package_id = p.id WHERE ...
find_version(registry, name, version) ==
    {v \in versions : v.version = version /\
        \E k \in packages : k.id = v.package_id /\ k.registry = registry
                            /\ k.name = name}

\* a get_or_create_version that forgets Skipped
should_skip_forgets_skipped(status) == status = "indexed"

\* matches!(status, VersionStatus::Indexed | VersionStatus::Skipped)
should_skip_of(status) == status \in {"indexed", "skipped"}

mark_version_indexed(version_id, chunk_count) ==
    {IF v.id = version_id
       THEN [v EXCEPT !.status = "indexed", !.chunk_count = chunk_count,
                      !.error_message = NULL]
       ELSE v : v \in versions}

\* a mark_version_failed that does not bind the error text
mark_version_failed_drops_error(version_id, error) ==
    {IF v.id = version_id THEN [v EXCEPT !.status = "failed"] ELSE v
       : v \in versions}

mark_version_failed(version_id, error) ==
    {IF v.id = version_id
       THEN [v EXCEPT !.status = "failed", !.error_message = error]
       ELSE v : v \in versions}

mark_version_skipped(version_id) ==
    {IF v.id = version_id THEN [v EXCEPT !.status = "skipped"] ELSE v
       : v \in versions}

\* a mark_version_pending that leaves error_message as it is
mark_version_pending_keeps_error(version_id) ==
    {IF v.id = version_id THEN [v EXCEPT !.status = "pending"] ELSE v
       : v \in versions}

mark_version_pending(version_id) ==
    {IF v.id = version_id
       THEN [v EXCEPT !.status = "pending", !.error_message = NULL]
       ELSE v : v \in versions}

\* ------------------------------------------------------------ task state
\* the locals of a command; writes is the history of the run of
\* index_package: the writes it has made to the stores, in their order
NoLoc ==
    [registry |-> Empty, name |-> Empty, version |-> Empty,
     package_id |-> NoId, version_id |-> NoId,
     files |-> 0, chunks |-> <<>>, embeddings |-> 0,
     db_chunks |-> <<>>, inserted |-> 0, error |-> NULL,
     namespaces |-> {}, to_prune |-> {}, spec |-> Empty, writes |-> <<>>]

NoResult == [kind |-> "none", skipped |-> FALSE, chunks_indexed |-> 0,
             files_processed |-> 0]

ErrResult == [kind |-> "err", skipped |-> FALSE, chunks_indexed |-> 0,
              files_processed |-> 0]

OkResult(skipped, chunks_indexed, files_processed) ==
    [kind |-> "ok", skipped |-> skipped, chunks_indexed |-> chunks_indexed,
     files_processed |-> files_processed]

\* LocalSearch::search: arguments (an Option is a set of at most one
\* element), the namespaces still to search, the hits, the results
NoSearch ==
    [pc |-> "idle", kind |-> "none", package |-> {}, registry |-> {},
     version |-> {}, limit |-> 0, namespaces |-> <<>>, hits |-> <<>>,
     results |-> <<>>]

\* init, update, watch: the command, the dependencies of the manifests,
\* the --concurrency option, the work list, the position of the stream, the
\* tasks buffer_unordered holds, the counters
NoWork ==
    [cmd |-> "none", pc |-> "none", manifest_deps |-> <<>>, concurrency |-> 1,
     list |-> <<>>, next |-> 1, in_flight |-> {},
     indexed |-> 0, skipped |-> 0, failed |-> 0]

\* no call made
NoCall == [fn |-> "none", arg |-> <<>>, ret |-> <<>>, returned |-> FALSE]

\* the command of task p returns r
Return(p, r) ==
    /\ pc' = [pc EXCEPT ![p] = "idle"]
    /\ loc' = [loc EXCEPT ![p] = NoLoc]
    /\ result' = [result EXCEPT ![p] = r]
    /\ UNCHANGED <<search, work, call>>

Goto(p, label, l) ==
    /\ pc' = [pc EXCEPT ![p] = label]
    /\ loc' = [loc EXCEPT ![p] = l]
    /\ UNCHANGED <<result, search, work, call>>

Init ==
    /\ packages = {}
    /\ versions = {}
    /\ chunks = {}
    /\ tables = {}
    /\ vectors = {}
    /\ blobs = {}
    /\ pc = [p \in Procs |-> "idle"]
    /\ loc = [p \in Procs |-> NoLoc]
    /\ result = [p \in Procs |-> NoResult]
    /\ search = NoSearch
    /\ call = NoCall
    /\ work = NoWork

\* ------------------------------------- index_package (local/indexer.rs)
\* index_package(registry, name, version) is called;
\* get_or_create_package: SELECT
GetPackage(p, registry, name, version) ==
    /\ pc[p] = "idle"
    /\ LET found == find_package(registry, name)
           l == [NoLoc EXCEPT !.registry = registry, !.name = name,
                              !.version = version] IN
        /\ pc' = [pc EXCEPT ![p] = IF found # {} THEN "find_version"
                                                 ELSE "insert_package"]
        /\ loc' = [loc EXCEPT ![p] =
                     IF found # {}
                       THEN [l EXCEPT !.package_id = (CHOOSE k \in found : TRUE).id]
                       ELSE l]
    /\ result' = [result EXCEPT ![p] = NoResult]
    /\ UNCHANGED <<search, work, call>>
    /\ UNCHANGED <<db, stores>>

\* get_or_create_package: INSERT, refused by UNIQUE(registry, name)
CreatePackage(p) ==
    /\ pc[p] = "insert_package"
    /\ IF find_package(loc[p].registry, loc[p].name) # {}
         THEN /\ Return(p, ErrResult)
              /\ UNCHANGED packages
         ELSE /\ FreePackageIds # {}
              /\ LET id == Least(FreePackageIds) IN
                  /\ packages' = packages \cup
                        {[id |-> id, registry |-> loc[p].registry,
                          name |-> loc[p].name]}
                  /\ Goto(p, "find_version", [loc[p] EXCEPT !.package_id = id])
    /\ UNCHANGED <<versions, chunks, stores>>

\* get_or_create_version: SELECT; Indexed and Skipped return skipped: true
GetVersion(p) ==
    /\ pc[p] = "find_version"
    /\ LET found == find_version_by_package(loc[p].package_id, loc[p].version) IN
        IF found # {}
          THEN LET ver == CHOOSE v \in found : TRUE IN
               IF should_skip_of(ver.status)
                 THEN Return(p, OkResult(TRUE, 0, 0))
                 ELSE Goto(p, "download", [loc[p] EXCEPT !.version_id = ver.id])
          ELSE Goto(p, "insert_version", loc[p])
    /\ UNCHANGED <<db, stores>>

\* get_or_create_version: INSERT ... 'pending', refused by
\* UNIQUE(package_id, version) and by FOREIGN KEY (package_id)
CreateVersion(p) ==
    /\ pc[p] = "insert_version"
    /\ IF \/ find_version_by_package(loc[p].package_id, loc[p].version) # {}
          \/ ~ \E k \in packages : k.id = loc[p].package_id
         THEN /\ Return(p, ErrResult)
              /\ UNCHANGED versions
         ELSE /\ FreeVersionIds # {}
              /\ LET id == Least(FreeVersionIds) IN
                  /\ versions' = versions \cup
                        {[id |-> id, package_id |-> loc[p].package_id,
                          version |-> loc[p].version, status |-> "pending",
                          error_message |-> NULL, chunk_count |-> 0]}
                  /\ Goto(p, "download", [loc[p] EXCEPT !.version_id = id])
    /\ UNCHANGED <<packages, chunks, stores>>

\* client.get_version or client.download_source returns an error
DownloadFail(p) ==
    /\ pc[p] = "download"
    /\ Goto(p, "mark_failed", [loc[p] EXCEPT !.error = "download"])
    /\ UNCHANGED <<db, stores>>

\* parse_files: the chunks of the files that yield one, in file order
parse_files(files) == SelectSeq(files, LAMBDA f : f # NoChunk)

\* the download succeeds; files are parsed; no chunk means Indexed with 0
DownloadOk(p, files) ==
    /\ pc[p] = "download"
    /\ LET parsed == parse_files(files)
           l == [loc[p] EXCEPT !.files = Len(files), !.chunks = parsed] IN
        IF parsed = <<>> THEN Goto(p, "mark_indexed", l)
                         ELSE Goto(p, "embed", l)
    /\ UNCHANGED <<db, stores>>

\* generate_embeddings fails: no key, transport, non-2xx, unparsable body
EmbedFail(p) ==
    /\ pc[p] = "embed"
    /\ Goto(p, "mark_failed", [loc[p] EXCEPT !.error = "embedding"])
    /\ UNCHANGED <<db, stores>>

\* chunks.iter().zip(embeddings.iter()) stops at the shorter of the two
zip_len(nchunks, nembeddings) == Min(nchunks, nembeddings)

\* generate_embeddings returns n vectors, as many as the endpoint sent
EmbedOk(p, n) ==
    /\ pc[p] = "embed"
    /\ LET l == [loc[p] EXCEPT !.embeddings = n] IN
        IF zip_len(Len(loc[p].chunks), n) = 0
          THEN Goto(p, "vector_insert", l)
          ELSE Goto(p, "put_blob", l)
    /\ UNCHANGED <<db, stores>>

\* LocalStorage::put: write-if-absent at {registry}/{name}/{version}/{hash}
put(registry, name, version, hash) ==
    blobs \cup {storage_key_of(registry, name, version, hash)}

\* a turn of the loop that prepares the records and stores no blob
PutBlobUnstored(p) ==
    /\ pc[p] = "put_blob"
    /\ FreeChunkIds # {}
    /\ LET l == loc[p]
           i == Len(l.db_chunks) + 1
           hash == l.chunks[i]
           rec == [id |-> Least(FreeChunkIds), version_id |-> l.version_id,
                   namespace |-> namespace_of(l.registry, l.name, l.version),
                   storage_key |->
                       storage_key_of(l.registry, l.name, l.version, hash)]
           l2 == [l EXCEPT !.db_chunks = Append(@, rec)] IN
        IF i = zip_len(Len(l.chunks), l.embeddings)
          THEN Goto(p, "vector_insert", l2)
          ELSE Goto(p, "put_blob", l2)
    /\ UNCHANGED <<db, stores>>

\* one turn of the loop: new chunk id, blob put, records prepared
PutBlob(p) ==
    /\ pc[p] = "put_blob"
    /\ FreeChunkIds # {}
    /\ LET l == loc[p]
           i == Len(l.db_chunks) + 1
           hash == l.chunks[i]
           rec == [id |-> Least(FreeChunkIds), version_id |-> l.version_id,
                   namespace |-> namespace_of(l.registry, l.name, l.version),
                   storage_key |->
                       storage_key_of(l.registry, l.name, l.version, hash)]
           l2 == [l EXCEPT !.db_chunks = Append(@, rec),
                           !.writes = Append(@, "blob")] IN
        /\ blobs' = put(l.registry, l.name, l.version, hash)
        /\ IF i = zip_len(Len(l.chunks), l.embeddings)
             THEN Goto(p, "vector_insert", l2)
             ELSE Goto(p, "put_blob", l2)
    /\ UNCHANGED <<db, tables, vectors>>

\* storage.put(...).await? : the error leaves index_package at once
PutBlobFail(p) ==
    /\ pc[p] = "put_blob"
    /\ Return(p, ErrResult)
    /\ UNCHANGED <<db, stores>>

\* VectorStore::insert: nothing to do for no records, else table and rows
VectorInsert(p) ==
    /\ pc[p] = "vector_insert"
    /\ LET l == loc[p]
           ns == namespace_of(l.registry, l.name, l.version) IN
        IF l.db_chunks = <<>>
          THEN /\ UNCHANGED <<tables, vectors>>
               /\ Goto(p, "mark_indexed", l)
          ELSE /\ tables' = tables \cup {ns}
               /\ vectors' = vectors \cup
                     {[namespace |-> ns, chunk_id |-> c.id]
                        : c \in Range(l.db_chunks)}
               /\ Goto(p, "insert_chunk",
                       [l EXCEPT !.writes = Append(@, "vector")])
    /\ UNCHANGED <<db, blobs>>

\* VectorStore::insert fails, before or after the table was created
VectorInsertFail(p, created) ==
    /\ pc[p] = "vector_insert"
    /\ loc[p].db_chunks # <<>>
    /\ tables' = IF created
                   THEN tables \cup {namespace_of(loc[p].registry, loc[p].name,
                                                  loc[p].version)}
                   ELSE tables
    /\ Goto(p, "mark_failed", [loc[p] EXCEPT !.error = "vector"])
    /\ UNCHANGED <<db, vectors, blobs>>

\* insert_chunks: one INSERT per chunk, each its own statement; refused by
\* PRIMARY KEY (id) and by FOREIGN KEY (version_id)
InsertChunk(p) ==
    /\ pc[p] = "insert_chunk"
    /\ LET l == loc[p]
           row == l.db_chunks[l.inserted + 1] IN
        IF \/ \E c \in chunks : c.id = row.id
           \/ ~ \E v \in versions : v.id = row.version_id
          THEN /\ UNCHANGED chunks
               /\ Goto(p, "mark_failed", [l EXCEPT !.error = "chunk"])
          ELSE /\ chunks' = chunks \cup {row}
               /\ LET l2 == [l EXCEPT !.inserted = @ + 1,
                                       !.writes = Append(@, "chunk")] IN
                  IF l.inserted + 1 = Len(l.db_chunks)
                    THEN Goto(p, "mark_indexed", l2)
                    ELSE Goto(p, "insert_chunk", l2)
    /\ UNCHANGED <<packages, versions, stores>>

\* an INSERT of insert_chunks fails for a reason of the store (I/O, busy)
InsertChunkFail(p) ==
    /\ pc[p] = "insert_chunk"
    /\ Goto(p, "mark_failed", [loc[p] EXCEPT !.error = "chunk"])
    /\ UNCHANGED <<db, stores>>

\* mark_version_failed(version_id, error); return Err(e)
MarkFailed(p) ==
    /\ pc[p] = "mark_failed"
    /\ versions' = mark_version_failed(loc[p].version_id, loc[p].error)
    /\ Return(p, ErrResult)
    /\ UNCHANGED <<packages, chunks, stores>>

\* mark_version_indexed(version_id, db_chunks.len()); return Ok
MarkIndexed(p) ==
    /\ pc[p] = "mark_indexed"
    /\ versions' = mark_version_indexed(loc[p].version_id, Len(loc[p].db_chunks))
    /\ Return(p, OkResult(FALSE, Len(loc[p].db_chunks), loc[p].files))
    /\ UNCHANGED <<packages, chunks, stores>>

Files == SeqsUpTo(Hashes \cup {NoChunk}, MaxChunks)

IndexPackage(p) ==
    \/ \E r \in Registries, n \in Names, v \in VersionStrs : GetPackage(p, r, n, v)
    \/ CreatePackage(p)
    \/ GetVersion(p)
    \/ CreateVersion(p)
    \/ DownloadFail(p)
    \/ \E files \in Files : DownloadOk(p, files)
    \/ EmbedFail(p)
    \/ \E n \in 0..MaxChunks : EmbedOk(p, n)
    \/ PutBlob(p)
    \/ PutBlobFail(p)
    \/ VectorInsert(p)
    \/ \E created \in BOOLEAN : VectorInsertFail(p, created)
    \/ InsertChunk(p)
    \/ InsertChunkFail(p)
    \/ MarkFailed(p)
    \/ MarkIndexed(p)

\* ------------------------------------------- skip (commands/skip.rs)
\* find_version(registry, name, version), "Package not found" without a row
SkipFind(p, registry, name, version) ==
    /\ pc[p] = "idle"
    /\ LET found == find_version(registry, name, version) IN
        IF found = {}
          THEN Return(p, ErrResult)
          ELSE /\ pc' = [pc EXCEPT ![p] = "skip_mark"]
               /\ loc' = [loc EXCEPT ![p] =
                     [NoLoc EXCEPT !.version_id = (CHOOSE v \in found : TRUE).id]]
               /\ result' = [result EXCEPT ![p] = NoResult]
               /\ UNCHANGED <<search, work, call>>
    /\ UNCHANGED <<db, stores>>

\* mark_version_skipped(ver.version_id)
SkipMark(p) ==
    /\ pc[p] = "skip_mark"
    /\ versions' = mark_version_skipped(loc[p].version_id)
    /\ Return(p, OkResult(FALSE, 0, 0))
    /\ UNCHANGED <<packages, chunks, stores>>

SkipCmd(p) ==
    \/ \E r \in Registries, n \in Names, v \in VersionStrs : SkipFind(p, r, n, v)
    \/ SkipMark(p)

\* ----------------------------------------- retry (commands/retry.rs)
\* retry <spec>: find_version(registry, name, version)
RetryFind(p, registry, name, version) ==
    /\ pc[p] = "idle"
    /\ LET found == find_version(registry, name, version) IN
        IF found = {}
          THEN Return(p, ErrResult)
          ELSE /\ pc' = [pc EXCEPT ![p] = "retry_mark"]
               /\ loc' = [loc EXCEPT ![p] =
                     [NoLoc EXCEPT !.version_id = (CHOOSE v \in found : TRUE).id]]
               /\ result' = [result EXCEPT ![p] = NoResult]
               /\ UNCHANGED <<search, work, call>>
    /\ UNCHANGED <<db, stores>>

\* mark_version_pending(ver.version_id)
RetryMark(p) ==
    /\ pc[p] = "retry_mark"
    /\ versions' = mark_version_pending(loc[p].version_id)
    /\ Return(p, OkResult(FALSE, 0, 0))
    /\ UNCHANGED <<packages, chunks, stores>>

RetryCmd(p) ==
    \/ \E r \in Registries, n \in Names, v \in VersionStrs : RetryFind(p, r, n, v)
    \/ RetryMark(p)

\* --------------------------------------------- the stores' deletions
\* VectorStore::delete_namespace: drop_table(..).ok()
delete_namespace_tables(ns) == tables \ {ns}
delete_namespace_vectors(ns) == {e \in vectors : e.namespace # ns}

\* LocalStorage::delete_package: remove_dir_all(registry/name/version)
storage_delete_package(registry, name, version) ==
    {k \in blobs : ~ UnderVersionDir(k, registry, name, version)}

\* ----------------------------------------- prune (commands/prune.rs)
\* list_versions() and the manifests give to_prune; nothing to do ends it
PruneList(p, manifest_set) ==
    /\ pc[p] = "idle"
    /\ LET listed == {[version_id |-> v.id, registry |-> k.registry,
                        name |-> k.name, version |-> v.version]
                         : <<v, k>> \in {x \in versions \X packages :
                                           x[1].package_id = x[2].id}}
           to_prune == {t \in listed : <<t.registry, t.name>> \notin manifest_set} IN
        IF to_prune = {}
          THEN Return(p, OkResult(FALSE, 0, 0))
          ELSE /\ pc' = [pc EXCEPT ![p] = "prune_select"]
               /\ loc' = [loc EXCEPT ![p] = [NoLoc EXCEPT !.to_prune = to_prune]]
               /\ result' = [result EXCEPT ![p] = NoResult]
               /\ UNCHANGED <<search, work, call>>
    /\ UNCHANGED <<db, stores>>

\* next version of the loop; delete_version: SELECT DISTINCT namespace
PruneSelect(p) ==
    /\ pc[p] = "prune_select"
    /\ \E t \in loc[p].to_prune :
         Goto(p, "prune_chunks",
              [loc[p] EXCEPT !.to_prune = @ \ {t},
                             !.version_id = t.version_id,
                             !.registry = t.registry, !.name = t.name,
                             !.version = t.version,
                             !.namespaces = {c.namespace : c \in
                                 {d \in chunks : d.version_id = t.version_id}}])
    /\ UNCHANGED <<db, stores>>

\* delete_version: DELETE FROM chunks WHERE version_id = ?
PruneDeleteChunks(p) ==
    /\ pc[p] = "prune_chunks"
    /\ chunks' = {c \in chunks : c.version_id # loc[p].version_id}
    /\ Goto(p, "prune_version", loc[p])
    /\ UNCHANGED <<packages, versions, stores>>

\* delete_version: DELETE FROM versions WHERE id = ?, refused while a chunk
\* row still references the version
PruneDeleteVersion(p) ==
    /\ pc[p] = "prune_version"
    /\ IF \E c \in chunks : c.version_id = loc[p].version_id
         THEN /\ Return(p, ErrResult)
              /\ UNCHANGED versions
         ELSE /\ versions' = {v \in versions : v.id # loc[p].version_id}
              /\ Goto(p, "prune_namespaces", loc[p])
    /\ UNCHANGED <<packages, chunks, stores>>

\* for ns in &namespaces { delete_namespace(ns) }
PruneDeleteNamespaces(p) ==
    /\ pc[p] = "prune_namespaces"
    /\ IF loc[p].namespaces = {}
         THEN /\ UNCHANGED <<tables, vectors>>
              /\ Goto(p, "prune_blobs", loc[p])
         ELSE \E ns \in loc[p].namespaces :
              /\ tables' = delete_namespace_tables(ns)
              /\ vectors' = delete_namespace_vectors(ns)
              /\ Goto(p, IF loc[p].namespaces = {ns} THEN "prune_blobs"
                                                     ELSE "prune_namespaces",
                      [loc[p] EXCEPT !.namespaces = @ \ {ns}])
    /\ UNCHANGED <<db, blobs>>

\* storage().delete_package(registry, name, version); removed += 1
PruneDeleteBlobs(p) ==
    /\ pc[p] = "prune_blobs"
    /\ blobs' = storage_delete_package(loc[p].registry, loc[p].name,
                                        loc[p].version)
    /\ IF loc[p].to_prune = {}
         THEN Return(p, OkResult(FALSE, 0, 0))
         ELSE Goto(p, "prune_select", loc[p])
    /\ UNCHANGED <<db, tables, vectors>>

ManifestSets == SUBSET (Registries \X Names)

PruneCmd(p) ==
    \/ \E m \in ManifestSets : PruneList(p, m)
    \/ PruneSelect(p)
    \/ PruneDeleteChunks(p)
    \/ PruneDeleteVersion(p)
    \/ PruneDeleteNamespaces(p)
    \/ PruneDeleteBlobs(p)

\* --------------------------------------- remove (commands/remove.rs)
\* find_package keys on (registry, name): the package row of the spec
RemoveFind(p, registry, name, version) ==
    /\ pc[p] = "idle"
    /\ LET found == find_package(registry, name) IN
        IF found = {}
          THEN Return(p, ErrResult)
          ELSE /\ pc' = [pc EXCEPT ![p] = "remove_select"]
               /\ loc' = [loc EXCEPT ![p] =
                     [NoLoc EXCEPT !.registry = registry, !.name = name,
                                   !.version = version,
                                   !.package_id = (CHOOSE k \in found : TRUE).id]]
               /\ result' = [result EXCEPT ![p] = NoResult]
               /\ UNCHANGED <<search, work, call>>
    /\ UNCHANGED <<db, stores>>

versions_of(package_id) == {v.id : v \in {w \in versions : w.package_id = package_id}}

\* delete_package: SELECT DISTINCT c.namespace ... WHERE v.package_id = ?
RemoveSelect(p) ==
    /\ pc[p] = "remove_select"
    /\ Goto(p, "remove_chunks",
            [loc[p] EXCEPT !.namespaces = {c.namespace : c \in
                {d \in chunks : d.version_id \in versions_of(loc[p].package_id)}}])
    /\ UNCHANGED <<db, stores>>

\* delete_package: DELETE FROM chunks WHERE version_id IN (...)
RemoveDeleteChunks(p) ==
    /\ pc[p] = "remove_chunks"
    /\ chunks' = {c \in chunks : c.version_id \notin versions_of(loc[p].package_id)}
    /\ Goto(p, "remove_versions", loc[p])
    /\ UNCHANGED <<packages, versions, stores>>

\* delete_package: DELETE FROM versions WHERE package_id = ?
RemoveDeleteVersions(p) ==
    /\ pc[p] = "remove_versions"
    /\ IF \E c \in chunks : c.version_id \in versions_of(loc[p].package_id)
         THEN /\ Return(p, ErrResult)
              /\ UNCHANGED versions
         ELSE /\ versions' = {v \in versions : v.package_id # loc[p].package_id}
              /\ Goto(p, "remove_package", loc[p])
    /\ UNCHANGED <<packages, chunks, stores>>

\* delete_package: DELETE FROM packages WHERE id = ?
RemoveDeletePackage(p) ==
    /\ pc[p] = "remove_package"
    /\ IF versions_of(loc[p].package_id) # {}
         THEN /\ Return(p, ErrResult)
              /\ UNCHANGED packages
         ELSE /\ packages' = {k \in packages : k.id # loc[p].package_id}
              /\ Goto(p, "remove_namespaces", loc[p])
    /\ UNCHANGED <<versions, chunks, stores>>

\* for ns in &namespaces { delete_namespace(ns) }
RemoveDeleteNamespaces(p) ==
    /\ pc[p] = "remove_namespaces"
    /\ IF loc[p].namespaces = {}
         THEN /\ UNCHANGED <<tables, vectors>>
              /\ Goto(p, "remove_blobs", loc[p])
         ELSE \E ns \in loc[p].namespaces :
              /\ tables' = delete_namespace_tables(ns)
              /\ vectors' = delete_namespace_vectors(ns)
              /\ Goto(p, IF loc[p].namespaces = {ns} THEN "remove_blobs"
                                                     ELSE "remove_namespaces",
                      [loc[p] EXCEPT !.namespaces = @ \ {ns}])
    /\ UNCHANGED <<db, blobs>>

\* storage().delete_package(&registry, &name, &version)
RemoveDeleteBlobs(p) ==
    /\ pc[p] = "remove_blobs"
    /\ blobs' = storage_delete_package(loc[p].registry, loc[p].name,
                                        loc[p].version)
    /\ Return(p, OkResult(FALSE, 0, 0))
    /\ UNCHANGED <<db, tables, vectors>>

RemoveCmd(p) ==
    \/ \E r \in Registries, n \in Names, v \in VersionStrs : RemoveFind(p, r, n, v)
    \/ RemoveSelect(p)
    \/ RemoveDeleteChunks(p)
    \/ RemoveDeleteVersions(p)
    \/ RemoveDeletePackage(p)
    \/ RemoveDeleteNamespaces(p)
    \/ RemoveDeleteBlobs(p)

\* --------------------------------------------- search (local/search.rs)
\* str::starts_with, str::contains, str::ends_with
starts_with(s, pat) == IsPrefix(pat, s)

contains(s, pat) ==
    \E i \in 0..(Len(s) - Len(pat)) : SubSeq(s, i + 1, i + Len(pat)) = pat

ends_with(s, pat) ==
    Len(pat) <= Len(s) /\ SubSeq(s, Len(s) - Len(pat) + 1, Len(s)) = pat

\* SELECT DISTINCT namespace FROM chunks
get_namespaces == {c.namespace : c \in chunks}

\* the namespaces to search, from package, registry and version
search_namespaces(package, registry, version) ==
    IF package # {}
      THEN LET pkg == CHOOSE x \in package : TRUE IN
           IF registry # {}
             THEN LET reg == CHOOSE x \in registry : TRUE IN
                  IF version # {}
                    THEN {namespace_of(reg, pkg, CHOOSE x \in version : TRUE)}
                    ELSE {ns \in get_namespaces :
                            starts_with(ns, reg \o <<"/">> \o pkg \o <<"/">>)}
             ELSE {ns \in get_namespaces :
                     \/ contains(ns, <<"/">> \o pkg \o <<"/">>)
                     \/ ends_with(ns, <<"/">> \o pkg)}
      ELSE get_namespaces

\* a Vec holding the elements of S in the order the store returns them
OrdersOf(S) == {s \in [1..Cardinality(S) -> S] : Range(s) = S}

\* distances of the query vector to the stored vectors
MaxDistance == 1

SortedByDistance(s) == \A i \in 1..(Len(s) - 1) : s[i].distance <= s[i + 1].distance

\* VectorStore::search: no table gives no hit; else the limit nearest
\* entries of the table, sorted by distance
vector_search(namespace, limit) ==
    IF namespace \notin tables
      THEN {<<>>}
      ELSE LET ids == {e.chunk_id : e \in {x \in vectors : x.namespace = namespace}}
               k == Min(limit, Cardinality(ids)) IN
           {h \in [1..k -> [chunk_id : ids, distance : 0..MaxDistance]] :
              /\ \A i, j \in 1..k : i # j => h[i].chunk_id # h[j].chunk_id
              /\ SortedByDistance(h)}

\* slice::sort_by on distance: a stable sort
RECURSIVE sort_by_distance(_)
sort_by_distance(s) ==
    IF s = <<>>
      THEN <<>>
      ELSE LET x == s[Len(s)]
               front == sort_by_distance(SubSeq(s, 1, Len(s) - 1))
               k == Cardinality({i \in 1..Len(front) :
                                   front[i].distance <= x.distance}) IN
           SubSeq(front, 1, k) \o <<x>> \o SubSeq(front, k + 1, Len(front))

\* Vec::truncate
truncate(s, n) == SubSeq(s, 1, Min(n, Len(s)))

\* SELECT ... FROM chunks c JOIN versions v JOIN packages p WHERE c.id = ?
get_chunk_with_package(id) ==
    {[id |-> c.id, registry |-> k.registry, package |-> k.name,
      version |-> v.version]
       : <<c, v, k>> \in {x \in chunks \X versions \X packages :
                            /\ x[1].id = id
                            /\ x[1].version_id = x[2].id
                            /\ x[2].package_id = x[3].id}}

SearchReturn(kind, results) ==
    search' = [search EXCEPT !.pc = "idle", !.kind = kind,
                             !.namespaces = <<>>, !.hits = <<>>,
                             !.results = results]

\* search(query, package, registry, version, limit): embed(query) succeeds
SearchEmbed(package, registry, version, limit) ==
    /\ search.pc = "idle"
    /\ search' = [NoSearch EXCEPT !.pc = "namespaces", !.package = package,
                                  !.registry = registry, !.version = version,
                                  !.limit = limit]
    /\ UNCHANGED <<db, stores, pc, loc, result, work, call>>

\* embed(query) fails: no key, transport, non-2xx, no embedding returned
SearchEmbedFail ==
    /\ search.pc = "idle"
    /\ search' = [NoSearch EXCEPT !.kind = "err"]
    /\ UNCHANGED <<db, stores, pc, loc, result, work, call>>

\* the namespaces are determined; none returns Ok(vec![])
SearchNamespaces ==
    /\ search.pc = "namespaces"
    /\ LET found == search_namespaces(search.package, search.registry,
                                      search.version) IN
        IF found = {}
          THEN SearchReturn("ok", <<>>)
          ELSE \E order \in OrdersOf(found) :
                 search' = [search EXCEPT !.pc = "vectors", !.namespaces = order]
    /\ UNCHANGED <<db, stores, pc, loc, result, work, call>>

\* search_multi: one namespace per turn; after the last, sort and truncate
SearchVectors ==
    /\ search.pc = "vectors"
    /\ \E hits \in vector_search(Head(search.namespaces), search.limit) :
         LET all_hits == search.hits \o hits
             rest == Tail(search.namespaces)
             final == truncate(sort_by_distance(all_hits), search.limit) IN
          IF rest # <<>>
            THEN search' = [search EXCEPT !.namespaces = rest, !.hits = all_hits]
            ELSE IF final = <<>>
              THEN SearchReturn("ok", <<>>)
              ELSE search' = [search EXCEPT !.pc = "hydrate", !.namespaces = rest,
                                            !.hits = final]
    /\ UNCHANGED <<db, stores, pc, loc, result, work, call>>

\* a hydration that takes a hit without a row for an error
SearchHydrateStrict ==
    /\ search.pc = "hydrate"
    /\ LET hit == Head(search.hits)
           rows == get_chunk_with_package(hit.chunk_id)
           results == Append(search.results,
                             (CHOOSE r \in rows : TRUE)
                             @@ [distance |-> hit.distance]) IN
        IF rows = {}
          THEN search' = [NoSearch EXCEPT !.kind = "err"]
          ELSE IF Tail(search.hits) = <<>>
            THEN SearchReturn("ok", results)
            ELSE search' = [search EXCEPT !.hits = Tail(@), !.results = results]
    /\ UNCHANGED <<db, stores, pc, loc, result, work, call>>

\* for hit in hits: get_chunk_with_package; a hit without a row is dropped
SearchHydrate ==
    /\ search.pc = "hydrate"
    /\ LET hit == Head(search.hits)
           rows == get_chunk_with_package(hit.chunk_id)
           results == IF rows = {}
                        THEN search.results
                        ELSE Append(search.results,
                                    (CHOOSE r \in rows : TRUE)
                                    @@ [distance |-> hit.distance]) IN
        IF Tail(search.hits) = <<>>
          THEN SearchReturn("ok", results)
          ELSE search' = [search EXCEPT !.hits = Tail(@), !.results = results]
    /\ UNCHANGED <<db, stores, pc, loc, result, work, call>>

Next ==
    \E p \in Procs :
        \/ IndexPackage(p)
        \/ SkipCmd(p)
        \/ RetryCmd(p)
        \/ PruneCmd(p)
        \/ RemoveCmd(p)

Spec == Init /\ [][Next]_vars

\* ------------------------------ an index directory that holds data
\* LocalIndexer::new on an index directory where an earlier invocation
\* indexed version 2 of the package with one chunk: the rows, the vector
\* entry and the blob that a successful index_package of it leaves.  Their
\* identifiers are ones Uuid::new_v4() gave then, none it gives now.
OtherVersion == <<"2">>

StoredPackage == [id |-> 1, registry |-> <<"n", "p", "m">>, name |-> <<"a">>]

StoredVersionRow(version) ==
    [id |-> 2, package_id |-> StoredPackage.id, version |-> version,
     status |-> "indexed", error_message |-> NULL, chunk_count |-> 1]

StoredChunk(version) ==
    [id |-> 3, version_id |-> StoredVersionRow(version).id,
     namespace |-> namespace_of(StoredPackage.registry, StoredPackage.name,
                                version),
     storage_key |-> storage_key_of(StoredPackage.registry, StoredPackage.name,
                                    version, <<"h">>)]

InitStored(version) ==
    /\ packages = {StoredPackage}
    /\ versions = {StoredVersionRow(version)}
    /\ chunks = {StoredChunk(version)}
    /\ tables = {StoredChunk(version).namespace}
    /\ vectors = {[namespace |-> StoredChunk(version).namespace,
                   chunk_id |-> StoredChunk(version).id]}
    /\ blobs = {StoredChunk(version).storage_key}
    /\ pc = [p \in Procs |-> "idle"]
    /\ loc = [p \in Procs |-> NoLoc]
    /\ result = [p \in Procs |-> NoResult]
    /\ search = NoSearch
    /\ call = NoCall
    /\ work = NoWork

\* one invocation after another on a package with two versions
InitVersions == InitStored(OtherVersion)

AllVersionStrs == VersionStrs \cup {OtherVersion}

NextVersions ==
    \E p \in {"t1"} :
        \/ \E r \in Registries, n \in Names, v \in AllVersionStrs :
               \/ GetPackage(p, r, n, v)
               \/ SkipFind(p, r, n, v)
               \/ RetryFind(p, r, n, v)
               \/ RemoveFind(p, r, n, v)
        \/ CreatePackage(p) \/ GetVersion(p) \/ CreateVersion(p)
        \/ DownloadFail(p) \/ (\E files \in Files : DownloadOk(p, files))
        \/ EmbedFail(p) \/ (\E n \in 0..MaxChunks : EmbedOk(p, n))
        \/ PutBlob(p) \/ PutBlobFail(p)
        \/ VectorInsert(p) \/ (\E created \in BOOLEAN : VectorInsertFail(p, created))
        \/ InsertChunk(p) \/ InsertChunkFail(p)
        \/ MarkFailed(p) \/ MarkIndexed(p)
        \/ SkipMark(p) \/ RetryMark(p)
        \/ PruneCmd(p)
        \/ RemoveSelect(p) \/ RemoveDeleteChunks(p) \/ RemoveDeleteVersions(p)
        \/ RemoveDeletePackage(p) \/ RemoveDeleteNamespaces(p)
        \/ RemoveDeleteBlobs(p)

SpecVersions == InitVersions /\ [][NextVersions]_vars

\* on an index that holds version 1 of the package, one invocation indexes
\* while another prunes or removes
InitReopened == \E v \in VersionStrs : InitStored(v)

NextReopened == IndexPackage("t1") \/ PruneCmd("t2") \/ RemoveCmd("t2")

SpecReopened == InitReopened /\ [][NextReopened]_vars

\* ------------------------------------ a search beside the commands
\* the limit a search is given
MaxLimit == 2

Search ==
    \/ \E limit \in 1..MaxLimit : SearchEmbed({}, {}, {}, limit)
    \/ SearchEmbedFail
    \/ SearchNamespaces
    \/ SearchVectors
    \/ SearchHydrate

\* one invocation runs the commands, one after another, while a second
\* one searches the whole index
NextSearch ==
    \/ \E p \in {"t1"} :
          \/ IndexPackage(p)
          \/ SkipCmd(p)
          \/ RetryCmd(p)
          \/ PruneCmd(p)
          \/ RemoveCmd(p)
    \/ Search

SpecSearch == Init /\ [][NextSearch]_vars

\* -------------------------------- a search with package, registry, version
\* an index directory where earlier invocations indexed versions 1 and 2 of
\* package a and version 1 of package a/b (a scoped name, a module path),
\* one chunk each
ScopedName == <<"a", "/", "b">>

ScopeIndex ==
    {[package_id |-> 3, name |-> <<"a">>, version_id |-> 5,
      version |-> <<"1">>, chunk_id |-> 8],
     [package_id |-> 3, name |-> <<"a">>, version_id |-> 6,
      version |-> <<"2">>, chunk_id |-> 9],
     [package_id |-> 4, name |-> ScopedName, version_id |-> 7,
      version |-> <<"1">>, chunk_id |-> 10]}

ScopeChunk(x) ==
    [id |-> x.chunk_id, version_id |-> x.version_id,
     namespace |-> namespace_of(StoredPackage.registry, x.name, x.version),
     storage_key |-> storage_key_of(StoredPackage.registry, x.name, x.version,
                                    <<"h">>)]

InitScope ==
    /\ packages = {[id |-> x.package_id, registry |-> StoredPackage.registry,
                    name |-> x.name] : x \in ScopeIndex}
    /\ versions = {[id |-> x.version_id, package_id |-> x.package_id,
                    version |-> x.version, status |-> "indexed",
                    error_message |-> NULL, chunk_count |-> 1] : x \in ScopeIndex}
    /\ chunks = {ScopeChunk(x) : x \in ScopeIndex}
    /\ tables = {ScopeChunk(x).namespace : x \in ScopeIndex}
    /\ vectors = {[namespace |-> ScopeChunk(x).namespace, chunk_id |-> x.chunk_id]
                    : x \in ScopeIndex}
    /\ blobs = {ScopeChunk(x).storage_key : x \in ScopeIndex}
    /\ pc = [p \in Procs |-> "idle"]
    /\ loc = [p \in Procs |-> NoLoc]
    /\ result = [p \in Procs |-> NoResult]
    /\ search = NoSearch
    /\ call = NoCall
    /\ work = NoWork

\* Option<&str>: None or Some of a value
Option(S) == {{}} \cup {{x} : x \in S}

NextScope ==
    \/ \E package \in Option({x.name : x \in ScopeIndex}),
          registry \in Option({StoredPackage.registry}),
          version \in Option({x.version : x \in ScopeIndex}),
          limit \in 1..MaxLimit :
            SearchEmbed(package, registry, version, limit)
    \/ SearchEmbedFail
    \/ SearchNamespaces
    \/ SearchVectors
    \/ SearchHydrate

SpecScope == InitScope /\ [][NextScope]_vars

\* searches of that index while another invocation removes package a
NextHydrate == NextScope \/ RemoveCmd("t1")

SpecHydrate == InitScope /\ [][NextHydrate]_vars

\* ----------------------------------- index <spec> (commands/index.rs)
\* str::split_once, str::rsplit_once on a character: None or Some((a, b))
split_once(s, ch) ==
    LET at == {i \in 1..Len(s) : s[i] = ch} IN
    IF at = {}
      THEN {}
      ELSE {<<SubSeq(s, 1, Least(at) - 1), SubSeq(s, Least(at) + 1, Len(s))>>}

rsplit_once(s, ch) ==
    LET at == {i \in 1..Len(s) : s[i] = ch}
        last == CHOOSE i \in at : \A j \in at : j <= i IN
    IF at = {}
      THEN {}
      ELSE {<<SubSeq(s, 1, last - 1), SubSeq(s, last + 1, Len(s))>>}

\* a parse_package_spec that takes a spec without @ as a name without version
parse_package_spec_lenient(spec) ==
    LET head == split_once(spec, ":") IN
    IF head = {}
      THEN {}
      ELSE LET registry == (CHOOSE x \in head : TRUE)[1]
               rest == (CHOOSE x \in head : TRUE)[2]
               tail == rsplit_once(rest, "@") IN
           IF tail = {}
             THEN {<<registry, rest, Empty>>}
             ELSE {<<registry, (CHOOSE x \in tail : TRUE)[1],
                     (CHOOSE x \in tail : TRUE)[2]>>}

\* parse_package_spec: registry:name@version, Err as the empty set
parse_package_spec(spec) ==
    LET head == split_once(spec, ":") IN
    IF head = {}
      THEN {}
      ELSE LET registry == (CHOOSE x \in head : TRUE)[1]
               rest == (CHOOSE x \in head : TRUE)[2]
               tail == rsplit_once(rest, "@") IN
           IF tail = {}
             THEN {}
             ELSE {<<registry, (CHOOSE x \in tail : TRUE)[1],
                     (CHOOSE x \in tail : TRUE)[2]>>}

\* str::to_lowercase
to_lowercase(s) ==
    [i \in 1..Len(s) |-> CASE s[i] = "N" -> "n"
                          [] s[i] = "P" -> "p"
                          [] s[i] = "M" -> "m"
                          [] s[i] = "E" -> "e"
                          [] OTHER -> s[i]]

\* Registry::from_str, Err as the empty set
from_str(s) == IF to_lowercase(s) \in Registries THEN {to_lowercase(s)} ELSE {}

\* the arguments the command line and the MCP tool are given: a registry
\* name, known or not, a name, plain or scoped, a version, each of them
\* possibly missing, with or without the separators
RegistryStrings == {<<>>, <<"n", "p">>, <<"n", "p", "m">>, <<"N", "p", "m">>}

SpecStrings ==
    {registry \o colon \o name \o at \o version :
        registry \in RegistryStrings, colon \in {<<>>, <<":">>},
        name \in {<<>>, <<"a">>, <<"@", "a">>}, at \in {<<>>, <<"@">>},
        version \in {<<>>, <<"1">>}}

\* get_or_create_package: SELECT, for the call of index_package
index_package(p, registry, name, version) ==
    LET found == find_package(registry, name)
        l == [NoLoc EXCEPT !.registry = registry, !.name = name,
                           !.version = version] IN
    /\ pc' = [pc EXCEPT ![p] = IF found # {} THEN "find_version"
                                             ELSE "insert_package"]
    /\ loc' = [loc EXCEPT ![p] =
                 IF found # {}
                   THEN [l EXCEPT !.package_id = (CHOOSE k \in found : TRUE).id]
                   ELSE l]
    /\ UNCHANGED result

\* idx index <spec> is started
IndexCmdStart(p, spec) ==
    /\ pc[p] = "idle"
    /\ pc' = [pc EXCEPT ![p] = "index_cmd"]
    /\ loc' = [loc EXCEPT ![p] = [NoLoc EXCEPT !.spec = spec]]
    /\ result' = [result EXCEPT ![p] = NoResult]
    /\ UNCHANGED <<db, stores, search, work, call>>

\* IndexCmd::run: parse_package_spec(..)?, Registry::from_str(..)?, then
\* index_package
IndexCmdRun(p) ==
    /\ pc[p] = "index_cmd"
    /\ LET parsed == parse_package_spec(loc[p].spec) IN
        IF parsed = {}
          THEN Return(p, ErrResult)
          ELSE LET t == CHOOSE x \in parsed : TRUE
                   registry == from_str(t[1]) IN
               IF registry = {}
                 THEN Return(p, ErrResult)
                 ELSE /\ index_package(p, CHOOSE r \in registry : TRUE, t[2], t[3])
                      /\ UNCHANGED <<search, work, call>>
    /\ UNCHANGED <<db, stores>>

\* the MCP tool index_package(registry, package, version) is called
McpIndexStart(p, registry, package, version) ==
    /\ pc[p] = "idle"
    /\ pc' = [pc EXCEPT ![p] = "mcp_index"]
    /\ loc' = [loc EXCEPT ![p] = [NoLoc EXCEPT !.registry = registry,
                                               !.name = package,
                                               !.version = version]]
    /\ result' = [result EXCEPT ![p] = NoResult]
    /\ UNCHANGED <<db, stores, search, work, call>>

\* LocalMcpServer::index_package: Registry::from_str, then index_package
McpIndexRun(p) ==
    /\ pc[p] = "mcp_index"
    /\ LET registry == from_str(loc[p].registry) IN
        IF registry = {}
          THEN Return(p, ErrResult)
          ELSE /\ index_package(p, CHOOSE r \in registry : TRUE, loc[p].name,
                                loc[p].version)
               /\ UNCHANGED <<search, work, call>>
    /\ UNCHANGED <<db, stores>>

NextIndexCmd ==
    \E p \in {"t1"} :
        \/ \E spec \in SpecStrings : IndexCmdStart(p, spec)
        \/ IndexCmdRun(p)
        \/ \E registry \in RegistryStrings, package \in Names,
              version \in VersionStrs :
                McpIndexStart(p, registry, package, version)
        \/ McpIndexRun(p)
        \/ CreatePackage(p) \/ GetVersion(p) \/ CreateVersion(p)
        \/ DownloadFail(p) \/ (\E files \in Files : DownloadOk(p, files))
        \/ EmbedFail(p) \/ (\E n \in 0..MaxChunks : EmbedOk(p, n))
        \/ PutBlob(p) \/ PutBlobFail(p)
        \/ VectorInsert(p) \/ (\E created \in BOOLEAN : VectorInsertFail(p, created))
        \/ InsertChunk(p) \/ InsertChunkFail(p)
        \/ MarkFailed(p) \/ MarkIndexed(p)

SpecIndexCmd == Init /\ [][NextIndexCmd]_vars

\* ------------------------- two invocations index beside one another
\* on an empty index or on one that holds version 2 of the package, two
\* tasks index any version of it
InitRace == Init \/ InitVersions

NextRace ==
    \E p \in Procs :
        \/ \E r \in Registries, n \in Names, v \in AllVersionStrs :
               GetPackage(p, r, n, v)
        \/ CreatePackage(p) \/ GetVersion(p) \/ CreateVersion(p)
        \/ DownloadFail(p) \/ (\E files \in Files : DownloadOk(p, files))
        \/ EmbedFail(p) \/ (\E n \in 0..MaxChunks : EmbedOk(p, n))
        \/ PutBlob(p) \/ PutBlobFail(p)
        \/ VectorInsert(p) \/ (\E created \in BOOLEAN : VectorInsertFail(p, created))
        \/ InsertChunk(p) \/ InsertChunkFail(p)
        \/ MarkFailed(p) \/ MarkIndexed(p)

SpecRace == InitRace /\ [][NextRace]_vars

\* ------------------ init, update, watch (commands/init.rs, update.rs, watch.rs)
\* dependencies the manifest parsers return; pom.xml and go.mod parsers
\* push one Dependency per entry of the file
MaxDeps == 3
MaxConcurrency == 2

Dependencies ==
    [registry : {<<"m", "v", "n">>, <<"n", "p", "m">>}, name : {<<"a">>, <<"b">>},
     version : {<<"1">>, <<"2">>}]

ManifestDeps == SeqsUpTo(Dependencies, MaxDeps)

\* list_packages() as (registry, name) -> version
IndexedVersions ==
    UNION {[K -> {d.version : d \in Dependencies}]
             : K \in SUBSET {<<d.registry, d.name>> : d \in Dependencies}}

\* the elements of s at the indices I, in order
AtIndices(s, I) ==
    [k \in 1..Cardinality(I) |->
        s[CHOOSE i \in I : Cardinality({j \in I : j <= i}) = k]]

\* a dedupe by name alone
collect_dependencies_by_name(all_deps) ==
    AtIndices(all_deps,
              {i \in 1..Len(all_deps) :
                 \A j \in 1..(i - 1) : all_deps[j].name # all_deps[i].name})

\* InitCmd::collect_dependencies: dedupe by (registry, name), keep first
collect_dependencies(all_deps) ==
    AtIndices(all_deps,
              {i \in 1..Len(all_deps) :
                 \A j \in 1..(i - 1) :
                    <<all_deps[j].registry, all_deps[j].name>>
                      # <<all_deps[i].registry, all_deps[i].name>>})

\* UpdateCmd::run: the dependencies that are new or whose version changed
to_update(manifest_deps, indexed_versions) ==
    SelectSeq(manifest_deps,
              LAMBDA dep :
                 \/ <<dep.registry, dep.name>> \notin DOMAIN indexed_versions
                 \/ indexed_versions[<<dep.registry, dep.name>>] # dep.version)

\* WatchCmd::sync_index: the dependencies not in the indexed set
to_index(manifest_deps, indexed_set) ==
    SelectSeq(manifest_deps,
              LAMBDA d : <<d.registry, d.name, d.version>> \notin indexed_set)

WorkList(cmd, manifest_deps, indexed_versions) ==
    CASE cmd = "init" -> collect_dependencies(manifest_deps)
      [] cmd = "update" -> to_update(manifest_deps, indexed_versions)
      [] cmd = "watch" ->
            to_index(manifest_deps,
                     {<<k[1], k[2], indexed_versions[k]>>
                        : k \in DOMAIN indexed_versions})

InitBatch ==
    /\ packages = {} /\ versions = {} /\ chunks = {}
    /\ tables = {} /\ vectors = {} /\ blobs = {}
    /\ pc = [p \in Procs |-> "idle"]
    /\ loc = [p \in Procs |-> NoLoc]
    /\ result = [p \in Procs |-> NoResult]
    /\ search = NoSearch
    /\ call = NoCall
    /\ \E cmd \in {"init", "update", "watch"}, manifest_deps \in ManifestDeps,
          concurrency \in 0..MaxConcurrency :
          work = [NoWork EXCEPT !.cmd = cmd, !.pc = "collect",
                                !.manifest_deps = manifest_deps,
                                !.concurrency = concurrency]

\* the work list is computed; an empty one returns at once
BatchCollect ==
    /\ work.pc = "collect"
    /\ \E indexed_versions \in IndexedVersions :
         LET list == WorkList(work.cmd, work.manifest_deps, indexed_versions) IN
         work' = [work EXCEPT !.list = list,
                              !.pc = IF list = <<>> THEN "done" ELSE "run"]
    /\ UNCHANGED <<db, stores, pc, loc, result, search, call>>

\* the width given to buffer_unordered: init and update take
\* self.concurrency.max(1), watch takes self.concurrency
buffer_width ==
    IF work.cmd = "watch" \/ work.concurrency >= 1 THEN work.concurrency ELSE 1

\* buffer_unordered takes the next future of the stream while it holds
\* fewer than its width
BatchStart ==
    /\ work.pc = "run"
    /\ work.next <= Len(work.list)
    /\ Cardinality(work.in_flight) < buffer_width
    /\ work' = [work EXCEPT !.in_flight = @ \cup {work.next}, !.next = @ + 1]
    /\ UNCHANGED <<db, stores, pc, loc, result, search, call>>

\* a task of the stream completes: its index_package returned Err, Ok with
\* chunks or Ok without, and the task adds one to a counter
BatchFinish ==
    /\ work.pc = "run"
    /\ \E i \in work.in_flight, r \in {"err", "chunks", "none"} :
         LET counter == IF r = "err" THEN "failed"
                        ELSE IF work.cmd = "init" /\ r = "none" THEN "skipped"
                        ELSE "indexed" IN
         work' = [work EXCEPT !.in_flight = @ \ {i}, ![counter] = @ + 1]
    /\ UNCHANGED <<db, stores, pc, loc, result, search, call>>

\* the stream is done and no task is left: collect returns, the counters
\* are printed
BatchReturn ==
    /\ work.pc = "run"
    /\ work.next > Len(work.list)
    /\ work.in_flight = {}
    /\ work' = [work EXCEPT !.pc = "done"]
    /\ UNCHANGED <<db, stores, pc, loc, result, search, call>>

NextBatch == BatchCollect \/ BatchStart \/ BatchFinish \/ BatchReturn

SpecBatch == InitBatch /\ [][NextBatch]_vars

\* ------------------------------ npm manifests (manifests/npm.rs)
\* str::trim on spaces; str::trim_start_matches on a character
RECURSIVE trim(_)
trim(s) ==
    IF s # <<>> /\ Head(s) = " " THEN trim(Tail(s))
    ELSE IF s # <<>> /\ s[Len(s)] = " " THEN trim(SubSeq(s, 1, Len(s) - 1))
    ELSE s

RECURSIVE trim_start_matches(_, _)
trim_start_matches(s, ch) ==
    IF s # <<>> /\ Head(s) = ch THEN trim_start_matches(Tail(s), ch) ELSE s

\* npm.rs clean_version: None as the empty set
clean_version(version) ==
    LET v == trim_start_matches(trim_start_matches(trim_start_matches(
                 trim_start_matches(trim(version), "^"), "~"), "="), "v") IN
    IF \/ contains(v, <<" ">>) \/ contains(v, <<"|", "|">>)
       \/ contains(v, <<"h", "t", "t", "p">>) \/ contains(v, <<"g", "i", "t">>)
       \/ contains(v, <<"f", "i", "l", "e", ":">>)
       \/ starts_with(v, <<">">>) \/ starts_with(v, <<"<">>)
       \/ starts_with(v, <<"*">>)
      THEN {}
      ELSE {v}

\* parse_package_json: git, file and url dependencies are skipped
is_skipped_spec(version) ==
    \/ starts_with(version, <<"g", "i", "t">>)
    \/ starts_with(version, <<"f", "i", "l", "e", ":">>)
    \/ starts_with(version, <<"h", "t", "t", "p">>)
    \/ contains(version, <<"g", "i", "t", "h", "u", "b", ":">>)

\* the version specs of a package.json entry
MaxVersionLen == 3

VersionSpecs ==
    SeqsUpTo({"1", ".", "*", ",", " ", "|", "^", ">", "g", "i", "t"},
             MaxVersionLen)

\* a package.json with one dependency, with or without its entry in
\* package-lock.json
InitNpm ==
    /\ packages = {} /\ versions = {} /\ chunks = {}
    /\ tables = {} /\ vectors = {} /\ blobs = {}
    /\ pc = [p \in Procs |-> "idle"]
    /\ loc = [p \in Procs |-> NoLoc]
    /\ result = [p \in Procs |-> NoResult]
    /\ search = NoSearch
    /\ work = NoWork
    /\ \E manifest_version \in VersionSpecs, lock \in Option({<<"1", ".", "1">>}) :
          call = [NoCall EXCEPT !.fn = "parse_npm_deps",
                                !.arg = [manifest_version |-> manifest_version,
                                         lock |-> lock]]

\* parse_npm_deps: the lockfile's version, else the cleaned manifest
\* version; the Dependencies pushed
ParseNpmDeps ==
    /\ call.fn = "parse_npm_deps" /\ ~ call.returned
    /\ LET version == IF is_skipped_spec(call.arg.manifest_version) THEN {}
                       ELSE IF call.arg.lock # {} THEN call.arg.lock
                       ELSE clean_version(call.arg.manifest_version) IN
        call' = [call EXCEPT !.returned = TRUE,
                   !.ret = {[registry |-> <<"n", "p", "m">>, name |-> <<"a">>,
                             version |-> v] : v \in version}]
    /\ UNCHANGED <<db, stores, pc, loc, result, search, work>>

SpecNpm == InitNpm /\ [][ParseNpmDeps]_vars

\* ------------------- workspace analysis (indexer/workspace/analyze.rs)
\* patterns.rs SKIP_DIRS
SKIP_DIRS ==
    {<<"t", "e", "s", "t">>, <<"t", "e", "s", "t", "s">>,
     <<"_", "_", "t", "e", "s", "t", "s", "_", "_">>,
     <<"s", "p", "e", "c">>, <<"s", "p", "e", "c", "s">>,
     <<"e", "x", "a", "m", "p", "l", "e">>,
     <<"e", "x", "a", "m", "p", "l", "e", "s">>, <<"d", "e", "m", "o">>,
     <<"d", "e", "m", "o", "s">>, <<"s", "a", "m", "p", "l", "e">>,
     <<"s", "a", "m", "p", "l", "e", "s">>,
     <<"f", "i", "x", "t", "u", "r", "e">>,
     <<"f", "i", "x", "t", "u", "r", "e", "s">>,
     <<"_", "_", "f", "i", "x", "t", "u", "r", "e", "s", "_", "_">>,
     <<"t", "e", "s", "t", "d", "a", "t", "a">>,
     <<"m", "o", "c", "k", "s">>,
     <<"_", "_", "m", "o", "c", "k", "s", "_", "_">>,
     <<"b", "e", "n", "c", "h">>, <<"b", "e", "n", "c", "h", "e", "s">>,
     <<"b", "e", "n", "c", "h", "m", "a", "r", "k">>,
     <<"b", "e", "n", "c", "h", "m", "a", "r", "k", "s">>,
     <<"e", "2", "e">>,
     <<"i", "n", "t", "e", "g", "r", "a", "t", "i", "o", "n">>,
     <<"i", "n", "t", "e", "g", "r", "a", "t", "i", "o", "n", "-", "t", "e", "s", "t", "s">>,
     <<"n", "o", "d", "e", "_", "m", "o", "d", "u", "l", "e", "s">>,
     <<"v", "e", "n", "d", "o", "r">>, <<"t", "a", "r", "g", "e", "t">>,
     <<"d", "i", "s", "t">>, <<"b", "u", "i", "l", "d">>,
     <<".", "b", "u", "i", "l", "d">>,
     <<"_", "_", "p", "y", "c", "a", "c", "h", "e", "_", "_">>,
     <<".", "p", "y", "t", "e", "s", "t", "_", "c", "a", "c", "h", "e">>,
     <<".", "m", "y", "p", "y", "_", "c", "a", "c", "h", "e">>,
     <<".", "r", "u", "f", "f", "_", "c", "a", "c", "h", "e">>,
     <<".", "g", "i", "t">>, <<".", "s", "v", "n">>, <<".", "h", "g">>,
     <<".", "v", "e", "n", "v">>, <<"v", "e", "n", "v">>,
     <<".", "e", "n", "v">>, <<"e", "n", "v">>,
     <<"c", "o", "v", "e", "r", "a", "g", "e">>,
     <<".", "c", "o", "v", "e", "r", "a", "g", "e">>,
     <<".", "n", "y", "c", "_", "o", "u", "t", "p", "u", "t">>}

\* patterns::should_skip_dir
should_skip_dir(path) ==
    /\ path # <<>>
    /\ LET path_lower == to_lowercase(path) IN
       \E dir \in SKIP_DIRS :
          \/ path_lower = dir
          \/ starts_with(path_lower, dir \o <<"/">>)
          \/ contains(path_lower, <<"/">> \o dir \o <<"/">>)
          \/ ends_with(path_lower, <<"/">> \o dir)

\* str::trim_end_matches on a string pattern: strips every repetition
RECURSIVE trim_end_matches(_, _)
trim_end_matches(s, pat) ==
    IF ends_with(s, pat)
      THEN trim_end_matches(SubSeq(s, 1, Len(s) - Len(pat)), pat)
      ELSE s

\* an is_member that takes the root for a member of every workspace
is_member_or_root(path, members) ==
    \/ path = <<>>
    \/ path \in members
    \/ \E pattern \in members :
          /\ ends_with(pattern, <<"/", "*">>)
          /\ LET prefix == trim_end_matches(pattern, <<"/", "*">>) IN
             /\ starts_with(path, prefix)
             /\ LET rest == SubSeq(path, Len(prefix) + 1, Len(path)) IN
                /\ starts_with(rest, <<"/">>)
                /\ ~ contains(SubSeq(rest, 2, Len(rest)), <<"/">>)

is_member(path, members) ==
    IF path = <<>>
      THEN <<".">> \in members
      ELSE \/ path \in members
           \/ \E pattern \in members :
                 /\ ends_with(pattern, <<"/", "*">>)
                 /\ LET prefix == trim_end_matches(pattern, <<"/", "*">>) IN
                    /\ starts_with(path, prefix)
                    /\ LET rest == SubSeq(path, Len(prefix) + 1, Len(path)) IN
                       /\ starts_with(rest, <<"/">>)
                       /\ ~ contains(SubSeq(rest, 2, Len(rest)), <<"/">>)

\* the path up to its last '/', the empty string for a file of the root
parent_dir(path) ==
    LET at == rsplit_once(path, "/") IN
    IF at = {} THEN <<>> ELSE (CHOOSE x \in at : TRUE)[1]

\* the registry of a manifest, None as the empty set
manifest_registry(path) ==
    LET at == rsplit_once(path, "/")
        name == IF at = {} THEN path ELSE (CHOOSE x \in at : TRUE)[2] IN
    IF name = <<"p", "a", "c", "k", "a", "g", "e", ".", "j", "s", "o", "n">> THEN {"npm"}
    ELSE IF name = <<"C", "a", "r", "g", "o", ".", "t", "o", "m", "l">> THEN {"crates"}
    ELSE IF name \in {<<"p", "y", "p", "r", "o", "j", "e", "c", "t", ".", "t", "o", "m", "l">>,
                      <<"s", "e", "t", "u", "p", ".", "p", "y">>} THEN {"pypi"}
    ELSE IF name = <<"g", "o", ".", "m", "o", "d">> THEN {"go"}
    ELSE IF name = <<"p", "o", "m", ".", "x", "m", "l">> THEN {"maven"}
    ELSE {}

\* Language::from_registry, and Language::from_path on the text after the
\* last '.' of the path (the whole path when it has none)
has_source_files(root_path, registry, files) ==
    LET langs == CASE registry = "npm" -> {"TypeScript", "JavaScript"}
                   [] registry = "pypi" -> {"Python"}
                   [] registry = "crates" -> {"Rust"}
                   [] registry = "go" -> {"Go"}
                   [] registry = "maven" -> {"Java"}
        from_path(path) ==
            LET at == rsplit_once(path, ".")
                ext == to_lowercase(IF at = {} THEN path
                                    ELSE (CHOOSE x \in at : TRUE)[2]) IN
            IF ext \in {<<"t", "s">>, <<"t", "s", "x">>, <<"m", "t", "s">>, <<"c", "t", "s">>} THEN {"TypeScript"}
            ELSE IF ext \in {<<"j", "s">>, <<"j", "s", "x">>, <<"m", "j", "s">>, <<"c", "j", "s">>} THEN {"JavaScript"}
            ELSE IF ext \in {<<"p", "y">>, <<"p", "y", "i">>} THEN {"Python"}
            ELSE IF ext = <<"r", "s">> THEN {"Rust"}
            ELSE IF ext = <<"g", "o">> THEN {"Go"}
            ELSE IF ext = <<"j", "a", "v", "a">> THEN {"Java"}
            ELSE IF ext \in {<<"m", "d">>, <<"m", "a", "r", "k", "d", "o", "w", "n">>} THEN {"Markdown"}
            ELSE {} IN
    \E path \in files :
       /\ root_path = <<>> \/ starts_with(path, root_path)
       /\ from_path(path) \cap langs # {}

\* analyze_repo on the paths of the files and the "workspaces" array of the
\* root package.json: the (root_path, registry) pairs of the packages
\* returned; dedupe keeps one package for each pair
analyze_repo(files, workspaces) ==
    LET manifests == {path \in files : manifest_registry(path) # {}}
        workspace_members ==
            IF <<"p", "a", "c", "k", "a", "g", "e", ".", "j", "s", "o", "n">> \in manifests THEN workspaces ELSE {}
        has_workspace == workspace_members # {} IN
    {[root_path |-> parent_dir(path), registry |-> registry] :
        <<path, registry>> \in
          {<<path, registry>> \in manifests \X {"npm", "crates", "pypi", "go", "maven"} :
             /\ registry \in manifest_registry(path)
             /\ ~ should_skip_dir(parent_dir(path))
             /\ has_workspace => is_member(parent_dir(path), workspace_members)
             /\ has_source_files(parent_dir(path), registry, files)}}

\* the files of a repository: a manifest or a source file in the root, in
\* packages of a workspace, below them, in a directory whose name begins
\* like another's, and in directories with and without the name of a
\* skipped one
RepoDirs ==
    {<<>>, <<"p">>, <<"p", "/", "a">>, <<"p", "/", "a", "/", "b">>,
     <<"p", "a">>, <<"e", "n", "v">>, <<"p", "/", "E", "n", "v">>,
     <<"p", "e", "n", "v">>}

RepoPaths ==
    {IF dir = <<>> THEN name ELSE dir \o <<"/">> \o name :
        dir \in RepoDirs,
        name \in {<<"p", "a", "c", "k", "a", "g", "e", ".", "j", "s", "o", "n">>,
                  <<"p", "y", "p", "r", "o", "j", "e", "c", "t", ".", "t", "o", "m", "l">>,
                  <<"x", ".", "t", "s">>, <<"x", ".", "p", "y">>}}

\* the "workspaces" entries of the root package.json
WorkspacePatterns == {<<".">>, <<"p">>, <<"p", "/", "*">>, <<"p", "/", "*", "/", "*">>}

MaxFiles == 3

InitAnalyze ==
    /\ packages = {} /\ versions = {} /\ chunks = {}
    /\ tables = {} /\ vectors = {} /\ blobs = {}
    /\ pc = [p \in Procs |-> "idle"]
    /\ loc = [p \in Procs |-> NoLoc]
    /\ result = [p \in Procs |-> NoResult]
    /\ search = NoSearch
    /\ work = NoWork
    /\ \E list \in SeqsUpTo(RepoPaths, MaxFiles), workspaces \in SUBSET WorkspacePatterns :
          LET files == {list[i] : i \in 1..Len(list)} IN
          /\ workspaces # {} => <<"p", "a", "c", "k", "a", "g", "e", ".", "j", "s", "o", "n">> \in files
          /\ call = [NoCall EXCEPT !.fn = "analyze_repo",
                                   !.arg = [files |-> files,
                                            workspaces |-> workspaces]]

AnalyzeRepo ==
    /\ call.fn = "analyze_repo" /\ ~ call.returned
    /\ call' = [call EXCEPT !.returned = TRUE,
                  !.ret = analyze_repo(call.arg.files, call.arg.workspaces)]
    /\ UNCHANGED <<db, stores, pc, loc, result, search, work>>

SpecAnalyze == InitAnalyze /\ [][AnalyzeRepo]_vars

\* ------------------------ vector table names (local/vector.rs)
\* str::replace: every match of from, left to right, without overlap
RECURSIVE replace(_, _, _)
replace(s, from, to) ==
    IF Len(s) < Len(from) THEN s
    ELSE IF SubSeq(s, 1, Len(from)) = from
      THEN to \o replace(SubSeq(s, Len(from) + 1, Len(s)), from, to)
      ELSE <<Head(s)>> \o replace(Tail(s), from, to)

sanitize_table_name(namespace) ==
    replace(replace(namespace, <<"/">>, <<"-", "-", "S", "-", "-">>),
            <<"@">>, <<"-", "-", "A", "-", "-">>)

unsanitize_table_name(table_name) ==
    replace(replace(table_name, <<"-", "-", "S", "-", "-">>, <<"/">>),
            <<"-", "-", "A", "-", "-">>, <<"@">>)

\* namespaces {registry}/{name}/{version}, of names and versions of the
\* registries: up to MaxPieces pieces, each a letter, a hyphen, '/', '@',
\* or a run of hyphens and capitals
MaxPieces == 3

NamespaceStrings ==
    LET Pieces == {<<"a">>, <<"-">>, <<"/">>, <<"@">>,
                   <<"-", "-", "S", "-", "-">>, <<"-", "-", "A", "-", "-">>}
        RECURSIVE Concat(_)
        Concat(ps) == IF ps = <<>> THEN <<>> ELSE Head(ps) \o Concat(Tail(ps)) IN
    {Concat(ps) : ps \in SeqsUpTo(Pieces, MaxPieces)}

InitSanitize ==
    /\ packages = {} /\ versions = {} /\ chunks = {}
    /\ tables = {} /\ vectors = {} /\ blobs = {}
    /\ pc = [p \in Procs |-> "idle"]
    /\ loc = [p \in Procs |-> NoLoc]
    /\ result = [p \in Procs |-> NoResult]
    /\ search = NoSearch
    /\ work = NoWork
    /\ \E namespace \in NamespaceStrings :
          call = [NoCall EXCEPT !.fn = "list_namespaces", !.arg = namespace]

\* the table of the namespace is created under its sanitized name and
\* list_namespaces maps the name of the table back
ListNamespaces ==
    /\ call.fn = "list_namespaces" /\ ~ call.returned
    /\ LET table_name == sanitize_table_name(call.arg) IN
        call' = [call EXCEPT !.returned = TRUE,
                   !.ret = [table_name |-> table_name,
                            namespace |-> unsanitize_table_name(table_name)]]
    /\ UNCHANGED <<db, stores, pc, loc, result, search, work>>

SpecSanitize == InitSanitize /\ [][ListNamespaces]_vars

\* ================================================================ claims
\* task p takes the step
Acts(p) == <<pc[p], loc[p], result[p]>> # <<pc'[p], loc'[p], result'[p]>>

\* one task has run every command so far: the other tasks never started one
Sequential ==
    \E p \in Procs : \A q \in Procs \ {p} : pc[q] = "idle" /\ result[q] = NoResult

IndexPcs == {"insert_package", "find_version", "insert_version", "download",
             "embed", "put_blob", "vector_insert", "insert_chunk",
             "mark_failed", "mark_indexed"}

ChunkRowsOf(version_id) == {c \in chunks : c.version_id = version_id}

\* C1: across any sequence of index_package, skip, retry, remove and prune, a
\* Version's status changes only by Pending->Indexed, Pending->Failed,
\* Pending->Skipped, Failed->Pending and Skipped->Pending.
DocumentedTransitions ==
    {<<"pending", "indexed">>, <<"pending", "failed">>, <<"pending", "skipped">>,
     <<"failed", "pending">>, <<"skipped", "pending">>}

C1_OnlyDocumentedTransitions ==
    [][Sequential =>
         \A v \in versions : \A w \in versions' :
             (v.id = w.id /\ v.status # w.status)
                 => <<v.status, w.status>> \in DocumentedTransitions]_vars

\* C2: in every state reached by sequences of index_package (failing attempts
\* too), retry, skip, remove and prune, an Indexed Version's chunk_count is
\* the number of chunk rows whose version_id is that Version.  Read between
\* commands: every command so far has returned.
C2_ChunkCountMatchesRows ==
    (Sequential /\ \A p \in Procs : pc[p] = "idle") =>
        \A v \in versions :
            v.status = "indexed" => v.chunk_count = Cardinality(ChunkRowsOf(v.id))

\* C3: a reader running beside index_package sees zero chunk rows of a
\* Version whose status is not Indexed: no state has a status other than
\* Indexed together with one or more chunk rows of the Version.
C3_NoChunkRowsUnlessIndexed ==
    \A v \in versions : v.status # "indexed" => ChunkRowsOf(v.id) = {}

\* C4: whenever an index_package attempt fails, none of the three stores
\* retains data of that attempt: no chunk row, no vector entry and no blob
\* that the attempt prepared is left when it returns the error.
C4_FailedAttemptLeavesNothing ==
    [][\A p \in Procs :
         (Sequential /\ pc[p] \in IndexPcs /\ pc'[p] = "idle"
            /\ result'[p].kind = "err")
         => \A r \in Range(loc[p].db_chunks) :
                /\ ~ \E c \in chunks' : c.id = r.id
                /\ ~ \E e \in vectors' : e.chunk_id = r.id
                /\ r.storage_key \notin blobs']_vars

\* C5: if a Version's status is Indexed or Skipped, index_package for its
\* (registry, name, version) returns skipped = true with zero counts and
\* leaves the Version row, its chunk rows, its vector namespace and its blobs
\* unchanged: the call finds the package, reads the row and returns.
IndexEntry(p) == pc[p] = "idle" /\ pc'[p] \in {"find_version", "insert_package"}

C5_IndexedOrSkippedIsLeftAlone ==
    [][\A p \in Procs :
         /\ (IndexEntry(p)
               /\ \E v \in find_version(loc'[p].registry, loc'[p].name,
                                         loc'[p].version) :
                      v.status \in {"indexed", "skipped"})
              => (pc'[p] = "find_version" /\ UNCHANGED <<db, stores>>)
         /\ (Acts(p) /\ pc[p] = "find_version"
               /\ \E v \in find_version_by_package(loc[p].package_id,
                                                    loc[p].version) :
                      v.status \in {"indexed", "skipped"})
              => (/\ pc'[p] = "idle"
                  /\ result'[p] = OkResult(TRUE, 0, 0)
                  /\ UNCHANGED <<db, stores>>)]_vars

\* a second index_package of an Indexed Version with chunks returned skipped
C5_Witness ==
    \E p \in Procs :
        /\ pc[p] = "idle" /\ result[p] = OkResult(TRUE, 0, 0)
        /\ \E v \in versions :
              /\ v.status = "indexed" /\ v.chunk_count = MaxChunks
              /\ Cardinality(ChunkRowsOf(v.id)) = v.chunk_count
        /\ Sequential

\* C6: when two invocations run index_package for the same (registry, name,
\* version) and both pass get_or_create_version with should_skip = false, at
\* most one of them completes insert_chunks and goes on to mark the Version
\* Indexed; the other's insert_chunks conflicts on chunk_id.
CompletedInsertChunks(p) ==
    pc[p] = "mark_indexed" /\ loc[p].db_chunks # <<>>
        /\ loc[p].inserted = Len(loc[p].db_chunks)

C6_AtMostOneWriterCompletes ==
    \A p \in Procs : \A q \in Procs \ {p} :
        ~ (/\ CompletedInsertChunks(p) /\ CompletedInsertChunks(q)
           /\ loc[p].version_id = loc[q].version_id
           /\ <<loc[p].registry, loc[p].name, loc[p].version>>
                = <<loc[q].registry, loc[q].name, loc[q].version>>)

\* C7: if a blob put, a vector-store insert or a chunk-row insert fails in
\* index_package, then when the error is returned the Version's status is
\* Failed with the error in error_message, never Pending.
StoreErrorReturn(p) ==
    /\ \/ pc[p] = "put_blob"
       \/ pc[p] = "mark_failed" /\ loc[p].error \in {"vector", "chunk"}
    /\ pc'[p] = "idle" /\ result'[p].kind = "err"

C7_StoreErrorMarksFailed ==
    [][\A p \in Procs :
         (Sequential /\ StoreErrorReturn(p))
         => \E v \in versions' :
               /\ v.id = loc[p].version_id
               /\ v.status = "failed"
               /\ v.error_message # NULL]_vars

\* C8: if get_version or download_source fails for a Version that is not
\* Indexed or Skipped, index_package returns the error, the Version becomes
\* Failed with error_message the error text, and the call has written no
\* blob, no vector entry and no chunk row: no step up to and including the
\* mark writes one, and the call has prepared none.
UpToDownload(p) ==
    \/ IndexEntry(p)
    \/ Acts(p) /\ pc[p] \in {"insert_package", "find_version", "insert_version",
                              "download"}
    \/ Acts(p) /\ pc[p] = "mark_failed" /\ loc[p].error = "download"

C8_DownloadFailureMarksFailed ==
    [][\A p \in Procs :
         /\ UpToDownload(p) => (/\ UNCHANGED <<chunks, stores>>
                                /\ loc[p].db_chunks = <<>>)
         /\ (Acts(p) /\ pc[p] = "mark_failed" /\ loc[p].error = "download")
              => /\ pc'[p] = "idle" /\ result'[p] = ErrResult
                 /\ \A v \in versions : v.id = loc[p].version_id =>
                       \E w \in versions' :
                           /\ w.id = v.id /\ w.status = "failed"
                           /\ w.error_message = "download"]_vars

\* a first index_package whose download failed: Failed, nothing stored
C8_Witness ==
    /\ \E p \in Procs : pc[p] = "idle" /\ result[p] = ErrResult
    /\ \E v \in versions : v.status = "failed" /\ v.error_message = "download"
    /\ chunks = {} /\ vectors = {} /\ tables = {} /\ blobs = {}
    /\ Sequential

\* C9: after a remove or prune of a Version completes, whatever successful
\* and failed index attempts preceded it, the index holds no chunk row of
\* the Version, no vector-store namespace {registry}/{name}/{version}, no
\* blob under that prefix and no Version row.
CompletesRemoval(p) == Acts(p) /\ pc[p] \in {"remove_blobs", "prune_blobs"}

C9_RemovalLeavesNothing ==
    [][\A p \in Procs :
         (Sequential /\ CompletesRemoval(p))
         => LET ns == namespace_of(loc[p].registry, loc[p].name, loc[p].version) IN
            /\ ~ \E c \in chunks' : c.namespace = ns
            /\ ns \notin tables'
            /\ ~ \E e \in vectors' : e.namespace = ns
            /\ ~ \E k \in blobs' : UnderVersionDir(k, loc[p].registry,
                                                    loc[p].name, loc[p].version)
            /\ ~ \E v \in versions' : \E k \in packages' :
                    /\ v.package_id = k.id /\ v.version = loc[p].version
                    /\ k.registry = loc[p].registry /\ k.name = loc[p].name]_vars

\* C10: removing a Version deletes its chunk rows, then the vector-store
\* namespace, then the blob prefix, and only then the Version row: in no
\* intermediate state of the removal is the Version row gone while vector
\* entries or blobs of that Version still exist.
RemovalPcs == {"prune_chunks", "prune_version", "prune_namespaces", "prune_blobs",
               "remove_select", "remove_chunks", "remove_versions",
               "remove_package", "remove_namespaces", "remove_blobs"}

C10_VersionRowDeletedLast ==
    \A p \in Procs :
        (Sequential /\ pc[p] \in RemovalPcs
            /\ find_version(loc[p].registry, loc[p].name, loc[p].version) = {})
        => LET ns == namespace_of(loc[p].registry, loc[p].name, loc[p].version) IN
           /\ ~ \E e \in vectors : e.namespace = ns
           /\ ~ \E k \in blobs : UnderVersionDir(k, loc[p].registry,
                                                   loc[p].name, loc[p].version)

\* C11: removing a Package that owns one or more Versions leaves no Version
\* row of the Package, no chunk row of its versions and no blob under
\* {registry}/{name}/ for any of its versions.  Read for a remove that names
\* a version of the Package that was indexed (its blobs are in the store).
PackageDir(registry, name) == registry \o <<"/">> \o name \o <<"/">>

C11_RemovePackageLeavesNothing ==
    [][\A p \in Procs :
         (/\ pc[p] = "remove_blobs" /\ pc'[p] = "idle"
          /\ \E k \in blobs : UnderVersionDir(k, loc[p].registry, loc[p].name,
                                                 loc[p].version))
         => LET dir == PackageDir(loc[p].registry, loc[p].name) IN
            /\ ~ \E v \in versions' : v.package_id = loc[p].package_id
            /\ ~ \E c \in chunks' : IsPrefix(dir, c.namespace)
            /\ ~ \E k \in blobs' : IsPrefix(dir, k)]_vars

\* C12: in every reachable state, every chunk row whose Version row exists
\* has a blob at its storage_key.
C12_ChunkRowHasBlob ==
    \A c \in chunks :
        (\E v \in versions : v.id = c.version_id) => c.storage_key \in blobs

\* C13: in every reachable state, the vector store holds, in the namespace
\* of every chunk row, an entry with that chunk row's chunk_id.
C13_ChunkRowHasVector ==
    \A c \in chunks :
        \E e \in vectors : e.namespace = c.namespace /\ e.chunk_id = c.id

\* C14: every result search returns belongs to a Version whose status is
\* Indexed when the search reads the chunk row: a hydration step adds no
\* result whose Version is Pending, Failed or Skipped.
AddedResults ==
    {search'.results[i] : i \in (Len(search.results) + 1)..Len(search'.results)}

C14_ResultsAreOfIndexedVersions ==
    [][search.pc = "hydrate" =>
         \A r \in AddedResults :
             \E c \in chunks : \E v \in versions :
                 /\ c.id = r.id /\ v.id = c.version_id
                 /\ v.status = "indexed"]_vars

\* C15: retry of a Version whose status is Failed or Skipped sets the status
\* to Pending and error_message to null and changes nothing else: no other
\* field, no other row, none of the three stores.  An index_package that
\* then reads the Version as Pending is not skipped: it goes on to the
\* download step with that Version.
C15_RetryMakesPendingAndIndexProceeds ==
    [][\A p \in Procs :
         /\ (Acts(p) /\ pc[p] = "retry_mark")
              => /\ \A v \in versions :
                      (v.id = loc[p].version_id /\ v.status \in {"failed", "skipped"})
                        => [v EXCEPT !.status = "pending", !.error_message = NULL]
                             \in versions'
                 /\ \A v \in versions : v.id # loc[p].version_id => v \in versions'
                 /\ Cardinality(versions') = Cardinality(versions)
                 /\ UNCHANGED <<packages, chunks, stores>>
         /\ (Acts(p) /\ pc[p] = "find_version"
               /\ \E v \in find_version_by_package(loc[p].package_id,
                                                    loc[p].version) :
                      v.status = "pending")
              => /\ pc'[p] = "download"
                 /\ \E v \in versions : v.id = loc'[p].version_id
                       /\ v.version = loc[p].version
                       /\ v.package_id = loc[p].package_id
                 /\ UNCHANGED <<db, stores>>]_vars

\* an index_package at the download step for a Version that a failed
\* attempt left with a chunk row and that a retry made Pending again
C15_Witness ==
    \E p \in Procs :
        /\ Sequential /\ pc[p] = "download" /\ loc[p].db_chunks = <<>>
        /\ \E v \in versions :
              /\ v.id = loc[p].version_id
              /\ v.status = "pending" /\ v.error_message = NULL
              /\ v.chunk_count = 0
              /\ ChunkRowsOf(v.id) # {}

\* C16: within one init, update or watch-sync invocation no two tasks for
\* the same (registry, name, version) are in flight at the same time.
C16_NoDuplicateInFlight ==
    \A i, j \in work.in_flight : i # j => work.list[i] # work.list[j]

\* C17: in every reachable state, also with index_package calls for the
\* same package or version side by side, no two Package rows share
\* (registry, name), no two Version rows share (package_id, version) and no
\* two chunk rows share their id.
C17_RowsAreUnique ==
    /\ \A a, b \in packages :
          (a.registry = b.registry /\ a.name = b.name) => a = b
    /\ \A a, b \in versions :
          (a.package_id = b.package_id /\ a.version = b.version) => a = b
    /\ \A a, b \in chunks : a.id = b.id => a = b

\* two index_package calls for the same version both found no row; one has
\* inserted it and the INSERT of the other is about to be refused
C17_Witness ==
    \E p, q \in Procs :
        /\ p # q
        /\ pc[p] = "insert_version"
        /\ pc[q] \in {"download", "embed", "put_blob", "insert_chunk"}
        /\ loc[p].package_id = loc[q].package_id
        /\ loc[p].version = loc[q].version
        /\ find_version_by_package(loc[p].package_id, loc[p].version) # {}

\* C18: the scope filters of search are sound: with package P and registry
\* R every result has registry R and package P, with version V also given
\* every result has version V as well, and with only P every result has
\* package P.
C18_ScopeFiltersAreSound ==
    \A i \in 1..Len(search.results) :
        LET r == search.results[i] IN
        /\ (search.package # {} /\ search.registry # {}) =>
              /\ r.registry \in search.registry
              /\ r.package \in search.package
              /\ search.version # {} => r.version \in search.version
        /\ (search.package # {} /\ search.registry = {}) =>
              r.package \in search.package

\* C19: search returns at most `limit` results, in ascending order of
\* distance; every result is of a chunk row that exists when the hit is
\* hydrated; a hit whose chunk row has been deleted adds no result and does
\* not make the search fail.
C19_ResultsWithinLimitSortedAndHydrated ==
    /\ [](/\ Len(search.results) <= search.limit
          /\ SortedByDistance(search.results))
    /\ [][(search.pc = "hydrate" /\ search' # search) =>
            LET hit == Head(search.hits) IN
            /\ search'.kind # "err"
            /\ \A r \in AddedResults : \E c \in chunks : c.id = r.id
            /\ (\A c \in chunks : c.id # hit.chunk_id)
                  => search'.results = search.results]_vars

\* a search over several namespaces has hydrated one hit and is at a hit
\* whose chunk row a remove has deleted
C19_Witness ==
    /\ search.pc = "hydrate"
    /\ search.results # <<>>
    /\ \A c \in chunks : c.id # Head(search.hits).chunk_id
    /\ Cardinality({v.namespace : v \in vectors}) > 1

\* C20: an index request whose package spec is malformed (no ':', or no '@'
\* after the first ':') or whose registry name is unknown returns an error
\* and leaves every Package row, Version row, chunk row, vector entry and
\* blob as it was.
Colons(spec) == {i \in 1..Len(spec) : spec[i] = ":"}

Malformed(spec) ==
    \/ Colons(spec) = {}
    \/ ~ \E j \in (Least(Colons(spec)) + 1)..Len(spec) : spec[j] = "@"

UnknownRegistry(registry) ==
    registry \notin {<<"n", "p", "m">>, <<"N", "p", "m">>}

RegistryPart(spec) == SubSeq(spec, 1, Least(Colons(spec)) - 1)

InvalidRequest(p) ==
    \/ /\ pc[p] = "index_cmd"
       /\ Malformed(loc[p].spec) \/ UnknownRegistry(RegistryPart(loc[p].spec))
    \/ /\ pc[p] = "mcp_index"
       /\ UnknownRegistry(loc[p].registry)

C21_BatchTerminatesAndCountsAll ==
    /\ work.pc \in {"collect", "run"} => ENABLED NextBatch
    /\ work.pc = "done" =>
          /\ work.next = Len(work.list) + 1
          /\ work.indexed + work.skipped + work.failed = Len(work.list)

\* C22: collect_dependencies returns exactly one entry per (registry, name)
\* of the gathered list, namely its first occurrence, in the order of the
\* gathered list; deduping its output again changes nothing.
DepKey(d) == <<d.registry, d.name>>

FirstOccurrences(s) ==
    {i \in 1..Len(s) : \A j \in 1..(i - 1) : DepKey(s[j]) # DepKey(s[i])}

C22_DedupeKeepsFirstOccurrences ==
    (work.cmd = "init" /\ work.pc \in {"run", "done"}) =>
        LET all_deps == work.manifest_deps
            deps == work.list IN
        /\ Len(deps) = Cardinality({DepKey(all_deps[i]) : i \in 1..Len(all_deps)})
        /\ \E at \in [1..Len(deps) -> FirstOccurrences(all_deps)] :
              /\ \A k \in 1..Len(deps) : deps[k] = all_deps[at[k]]
              /\ \A k \in 1..(Len(deps) - 1) : at[k] < at[k + 1]
        /\ collect_dependencies(deps) = deps

\* init has deduped a list in which a (registry, name) comes twice with
\* different versions, between them an entry of the same name in another
\* registry
C22_Witness ==
    /\ work.cmd = "init" /\ work.pc = "run"
    /\ Len(work.manifest_deps) = 3 /\ Len(work.list) = 2
    /\ DepKey(work.manifest_deps[1]) = DepKey(work.manifest_deps[3])
    /\ work.manifest_deps[1].version # work.manifest_deps[3].version
    /\ work.manifest_deps[2].name = work.manifest_deps[1].name

\* C23: no Dependency a manifest resolver emits has a version that contains
\* a space, a comma, '*' or '||', or that starts with a URL, git or file
\* prefix.
C23_EmittedVersionsAreExact ==
    (call.fn = "parse_npm_deps" /\ call.returned) =>
        \A d \in call.ret :
            /\ \A i \in 1..Len(d.version) : d.version[i] \notin {" ", ",", "*"}
            /\ ~ \E i \in 1..(Len(d.version) - 1) :
                    d.version[i] = "|" /\ d.version[i + 1] = "|"
            /\ ~ IsPrefix(<<"g", "i", "t">>, d.version)
            /\ ~ IsPrefix(<<"h", "t", "t", "p">>, d.version)
            /\ ~ IsPrefix(<<"f", "i", "l", "e", ":">>, d.version)

\* the directories and the file name of a path, split at '/'
RECURSIVE Segments(_)
Segments(path) ==
    LET at == split_once(path, "/") IN
    IF at = {} THEN <<path>>
    ELSE LET x == CHOOSE y \in at : TRUE IN <<x[1]>> \o Segments(x[2])

\* the directory of a file, as the list of its directories (the root: <<>>)
DirOf(path) == SubSeq(Segments(path), 1, Len(Segments(path)) - 1)

\* a directory at or below a test, example, fixture, benchmark or
\* dependency-cache directory
UnderSkipPattern(dir) ==
    \E i \in 1..Len(dir) : to_lowercase(dir[i]) \in SKIP_DIRS

\* a member as the spec has it: listed, one level below the prefix of a
\* listed prefix/*, or the root
MemberOrRoot(dir, members) ==
    \/ dir = <<>>
    \/ \E m \in members : Segments(m) = dir
    \/ \E m \in members :
          LET pat == Segments(m) IN
          /\ Len(pat) >= 2 /\ pat[Len(pat)] = <<"*">>
          /\ Len(dir) = Len(pat)
          /\ SubSeq(dir, 1, Len(dir) - 1) = SubSeq(pat, 1, Len(pat) - 1)

\* a member as amended: the root only as the listed ".", and the prefix
\* of a pattern is what is left of it without all its trailing /*
ListedMember(dir, members) ==
    IF dir = <<>>
      THEN <<".">> \in members
      ELSE \/ \E m \in members : Segments(m) = dir
           \/ \E m \in members :
                 LET pat == Segments(m)
                     k == CHOOSE k \in 1..Len(pat) :
                             /\ \A j \in (k + 1)..Len(pat) : pat[j] = <<"*">>
                             /\ k = 1 \/ pat[k] # <<"*">> IN
                 /\ k < Len(pat)
                 /\ Len(dir) = k + 1
                 /\ SubSeq(dir, 1, k) = SubSeq(pat, 1, k)

\* the packages analyze_repo is to return when Member decides who is a
\* member of the workspace
CandidatesWithSource(Member(_, _)) ==
    LET files == call.arg.files
        members == call.arg.workspaces IN
    {[root_path |-> parent_dir(path), registry |-> registry] :
        <<path, registry>> \in
          {<<path, registry>> \in files \X {"npm", "crates", "pypi", "go", "maven"} :
             /\ registry \in manifest_registry(path)
             /\ ~ UnderSkipPattern(DirOf(path))
             /\ members # {} => Member(DirOf(path), members)
             /\ has_source_files(parent_dir(path), registry, files)}}

\* C24 as stated: analyze_repo keeps a manifest directory (that has source
\* files) iff it is not under a skip pattern and, when the root declares a
\* workspace, it is a member (listed, or one level below a listed
\* prefix/*) or it is the root itself
C24_CandidateIffMemberOrRoot ==
    call.fn = "analyze_repo" /\ call.returned
        => call.ret = CandidatesWithSource(MemberOrRoot)

\* C24 amended: as above, but the root is a candidate of a workspace only
\* when "." is listed as a member, and a pattern with several trailing /*
\* matches one level below what is left without them
C24_CandidateIffListedMember ==
    call.fn = "analyze_repo" /\ call.returned
        => call.ret = CandidatesWithSource(ListedMember)

\* a workspace of p/* : the package p/a is returned, the root, which has
\* source files below it, is not
C24_Witness ==
    /\ call.fn = "analyze_repo" /\ call.returned
    /\ call.arg.workspaces = {<<"p", "/", "*">>}
    /\ \E d \in call.ret : d.root_path = <<"p", "/", "a">>
    /\ \A d \in call.ret : d.root_path # <<>>
    /\ has_source_files(<<>>, "npm", call.arg.files)

\* the file is inside the directory's own subtree
InSubtree(path, dir) ==
    Len(dir) <= Len(DirOf(path)) /\ SubSeq(DirOf(path), 1, Len(dir)) = dir

\* the file is a source file of a language of the registry
IsSourceOf(path, registry) ==
    \E ext \in (CASE registry = "npm" ->
                       {<<"t", "s">>, <<"t", "s", "x">>, <<"m", "t", "s">>,
                        <<"c", "t", "s">>, <<"j", "s">>, <<"j", "s", "x">>,
                        <<"m", "j", "s">>, <<"c", "j", "s">>}
                  [] registry = "pypi" -> {<<"p", "y">>, <<"p", "y", "i">>}
                  [] OTHER -> {}) :
       ends_with(path, <<".">> \o ext)

\* C25: a package is returned for a directory and a registry only if some
\* file inside the directory's own subtree is a source file of a language
\* of the registry; a directory with package.json and pyproject.toml whose
\* subtree holds only Python sources yields no package but the pypi one
C25_PackageHasSourceInItsSubtree ==
    call.fn = "analyze_repo" /\ call.returned =>
        \A d \in call.ret :
           \E path \in call.arg.files :
              /\ InSubtree(path, IF d.root_path = <<>> THEN <<>>
                                 ELSE Segments(d.root_path))
              /\ IsSourceOf(path, d.registry)

\* the writes of a run in the order blobs, vectors, chunk rows: n blobs,
\* the vector insert if there is a record, n chunk rows
OrderedWrites(n) ==
    [i \in 1..(IF n = 0 THEN 0 ELSE 2 * n + 1) |->
        IF i <= n THEN "blob" ELSE IF i = n + 1 THEN "vector" ELSE "chunk"]

\* task p marks its version Indexed after it extracted a chunk
MarksIndexedWithChunks(p) ==
    /\ Acts(p) /\ pc[p] = "mark_indexed" /\ loc[p].chunks # <<>>
    /\ \E v \in versions' : v.id = loc[p].version_id /\ v.status = "indexed"

\* C26: in a run of index_package that extracted a chunk and ends
\* Indexed, the blobs of all the records are put first, then the vector
\* insert completes, then the chunk rows are inserted, and the update of
\* the status to Indexed is the last write: the run returns with it
C26_WritesInOrder ==
    [][\A p \in Procs :
          MarksIndexedWithChunks(p) =>
             /\ loc[p].writes = OrderedWrites(Len(loc[p].db_chunks))
             /\ loc[p].inserted = Len(loc[p].db_chunks)
             /\ pc'[p] = "idle"
             /\ UNCHANGED <<packages, chunks, stores>>]_vars

\* a run that wrote two blobs, the vectors and two chunk rows and is about
\* to mark its version Indexed
C26_Witness ==
    \E p \in Procs :
       /\ pc[p] = "mark_indexed"
       /\ loc[p].writes = <<"blob", "blob", "vector", "chunk", "chunk">>
       /\ \E v \in versions : v.id = loc[p].version_id

\* C28: in every reachable state the error_message of a Version is
\* non-null only if its status is Failed: no Version that is Pending,
\* Indexed or Skipped carries the message of an earlier failure
C28_ErrorMessageOnlyWhenFailed ==
    \A v \in versions : v.error_message # NULL => v.status = "failed"

\* C27: for every namespace ns, unsanitize_table_name of
\* sanitize_table_name(ns) is ns, and no other namespace has the table name
\* of ns
C27_TableNameRoundTripsAndIsInjective ==
    call.fn = "list_namespaces" /\ call.returned =>
        /\ call.ret.namespace = call.arg
        /\ \A other \in NamespaceStrings :
              sanitize_table_name(other) = call.ret.table_name => other = call.arg

\* what the stores hold of the version row v of the package registry:name:
\* the row, its chunk rows, its vector namespace and its blobs
HeldOf(v, registry, name, vs, cs, ts, es, bs) ==
    LET ns == namespace_of(registry, name, v.version) IN
    [row |-> {w \in vs : w.id = v.id},
     chunks |-> {c \in cs : c.version_id = v.id},
     table |-> ts \cap {ns},
     vectors |-> {e \in es : e.namespace = ns},
     blobs |-> {k \in bs : UnderVersionDir(k, registry, name, v.version)}]

\* C29: a step of remove registry:name@V1 leaves every other Version of
\* the package as it is: its row and status, its chunk rows, its vector
\* namespace and its blobs
C29_RemoveLeavesOtherVersions ==
    [][\A p \in Procs :
          (/\ Acts(p)
           /\ pc[p] \in {"remove_select", "remove_chunks", "remove_versions",
                          "remove_package", "remove_namespaces", "remove_blobs"})
          => \A v \in versions :
                (v.package_id = loc[p].package_id /\ v.version # loc[p].version)
                => HeldOf(v, loc[p].registry, loc[p].name,
                          versions', chunks', tables', vectors', blobs')
                   = HeldOf(v, loc[p].registry, loc[p].name,
                            versions, chunks, tables, vectors, blobs)]_vars

\* C30: whenever index_package marks a Version Indexed, the chunk rows and
\* the vector entries the run wrote are as many as the chunks it extracted
\* from the files, whatever number of embeddings the endpoint returned
C30_EveryChunkIsStored ==
    [][\A p \in Procs :
          (/\ Acts(p) /\ pc[p] = "mark_indexed"
           /\ \E v \in versions' :
                 v.id = loc[p].version_id /\ v.status = "indexed")
          => LET n == Len(loc[p].chunks)
                 written(kind) ==
                     Cardinality({i \in 1..Len(loc[p].writes) :
                                     loc[p].writes[i] = kind}) IN
             /\ written("chunk") = n
             /\ written("vector") = (IF n = 0 THEN 0 ELSE 1)
             /\ Len(loc[p].db_chunks) = n]_vars

====
